---- MODULE Spec2Model ----
(***************************************************************************)
(* A model of the tokendiff library (github.com/dacharyc/tokendiff):       *)
(* the confusing-token filter (preprocess.go), the diff post-processing    *)
(* passes (postprocess.go), the case-insensitive diff paths (tokendiff.go),*)
(* the tokenizers (tokenize.go) and the line pairing and line-by-line diff *)
(* (linediff.go).                                                          *)
(*                                                                         *)
(* Every library entry point is a pure function, so each one is an         *)
(* operator computed the way the Go code computes it, and each             *)
(* specification draws the inputs in Init and applies the functions in     *)
(* its actions. Go slices are 0-based: At(s, i) reads s[i].                *)
(***************************************************************************)
EXTENDS Integers, Sequences, FiniteSets, TLC

VARIABLES
    pc,          \* the stage the computation modelled by the specification is at
    tokens1,     \* old-side token sequence (original casing)
    tokens2,     \* new-side token sequence (original casing)
    many,        \* DiscardConfusingTokens: the discard threshold
    marked1,     \* what markTokensForDiscard returned for side 1
    marked2,     \* what markTokensForDiscard returned for side 2
    discard1,    \* DiscardConfusingTokens: discard1 (mutated by applyProvisionalRules)
    discard2,    \* DiscardConfusingTokens: discard2
    filtered1,   \* DiscardConfusingTokens results
    filtered2,
    map1,
    map2,
    diffs,       \* the []Diff handed to a post-processing pass
    minContext,  \* ApplyMatchContext's minContext
    out,         \* the []Diff a pass (or a diff entry point) returned
    lower1,      \* case-insensitive paths: lower-cased tokens1
    lower2,      \* case-insensitive paths: lower-cased tokens2
    filteredDiffs, \* diff of the filtered sequences
    text,        \* TokenizeWithPositions: the input text, a sequence of bytes
    opts,        \* TokenizeWithPositions: the Options
    tokens,      \* TokenizeWithPositions: returned tokens (byte sequences)
    positions,   \* TokenizeWithPositions: returned TokenPos values
    lines1,      \* DiffLineByLine: strings.Split(text1, "\n")
    lines2,      \* DiffLineByLine: strings.Split(text2, "\n")
    lineDiffs,   \* DiffLineByLine: the line-level diff
    algorithm,   \* DiffLineByLine: "best" or another pairing mode
    simThreshold,   \* similarity simThreshold, a ratio <<numerator, denominator>>
    simOf,       \* the score ComputeTokenSimilarity gives each pair of lines
    blockDeletes,     \* FindSimilarityPairings: deleted lines of a block
    blockInserts,     \* FindSimilarityPairings: inserted lines of a block
    pairings,    \* FindSimilarityPairings: returned []LinePairing
    results,     \* DiffLineByLine: returned Lines
    blocks,      \* DiffLineByLine: deletes, inserts, pairings of each changed block
    statistics,  \* DiffLineByLine: returned Statistics (totalStats)
    ctxLines,    \* FilterWithContext: lines
    contextLines, \* FilterWithContext: contextLines
    filteredLines, \* FilterWithContext: the returned lines
    udInput,     \* ProcessUnifiedDiff: the lines the scanner yields
    udScanned,   \* ProcessUnifiedDiff: number of lines scanned so far
    oldLines,    \* diffProcessor.oldLines
    newLines,    \* diffProcessor.newLines
    inHunk,      \* diffProcessor.inHunk
    udOutput,    \* what has been written to diffProcessor.output
    exitCode,    \* the code main exits with, -1 while it runs
    interleaveI, \* InterleaveDiffs: the loop index i
    interleaveResult \* InterleaveDiffs: result

vars == <<pc, tokens1, tokens2, many, marked1, marked2, discard1, discard2,
          filtered1, filtered2, map1, map2, diffs, minContext, out,
          lower1, lower2, filteredDiffs, text, opts, tokens, positions,
          lines1, lines2, lineDiffs, algorithm, simThreshold, simOf,
          blockDeletes, blockInserts, pairings, results, blocks, statistics,
          ctxLines, contextLines, filteredLines,
          udInput, udScanned, oldLines, newLines, inHunk, udOutput, exitCode,
          interleaveI, interleaveResult>>

filterVars == <<many, marked1, marked2, discard1, discard2,
                filtered1, filtered2, map1, map2>>
postVars == <<diffs, minContext>>
caseVars == <<lower1, lower2, filteredDiffs>>
tokVars == <<text, opts, tokens, positions>>
lineVars == <<lines1, lines2, lineDiffs, algorithm, simThreshold, simOf,
              blockDeletes, blockInserts, pairings, results, blocks, statistics>>
ctxVars == <<ctxLines, contextLines, filteredLines>>
unifiedVars == <<udInput, udScanned, oldLines, newLines, inHunk, udOutput, exitCode>>
loopVars == <<interleaveI, interleaveResult>>

(***************************************************************************)
(* Bounds of the model.                                                    *)
(***************************************************************************)
\* longest token sequence per side given to DiscardConfusingTokens
MaxLen == 4

(***************************************************************************)
(* Helpers for Go slices.                                                  *)
(***************************************************************************)
At(s, i) == s[i + 1]

Range(s) == {s[i] : i \in 1..Len(s)}

SeqsUpTo(S, n) == UNION {[1..k -> S] : k \in 0..n}

Max(a, b) == IF a >= b THEN a ELSE b

Min(a, b) == IF a <= b THEN a ELSE b

\* the subsequence of s at the positions i >= from where keep[i] holds
RECURSIVE SelectIdx(_, _, _)
SelectIdx(s, keep, from) ==
    IF from > Len(s) THEN <<>>
    ELSE (IF keep[from] THEN <<s[from]>> ELSE <<>>) \o SelectIdx(s, keep, from + 1)

(***************************************************************************)
(* preprocess.go                                                           *)
(***************************************************************************)
discardKeep == 0
discardDefinitely == 1
discardProvisional == 2

\* counts1 / counts2: a Go map from token to its number of occurrences
Counts(toks) ==
    [t \in Range(toks) |-> Cardinality({i \in 1..Len(toks) : toks[i] = t})]

\* reading a Go map: the zero value for a missing key
MapGet(m, k) == IF k \in DOMAIN m THEN m[k] ELSE 0

\* float64 values are modelled in fixed point: the integer v stands for
\* v / FixedOne. For every total below 128 the iterates below take the same
\* branches, and give the same int(sqrt(total)), as the float64 computation.
FixedOne == 4096

\* sqrt's Newton iteration from x, at iteration i. The value returned on
\* break is x, the iterate before the step that was found small, not next.
RECURSIVE sqrtLoop(_, _, _)
sqrtLoop(n, x, i) ==
    IF i >= 100 THEN x
    ELSE LET next == (x + (n * FixedOne * FixedOne) \div x) \div 2
         IN IF next >= x - FixedOne \div 2 /\ next <= x + FixedOne \div 2
            THEN x
            ELSE sqrtLoop(n, next, i + 1)

sqrt(n) == IF n <= 0 THEN 0 ELSE sqrtLoop(n, n * FixedOne, 0)

\* many := int(sqrt(float64(total))); if many < 2 { many = 2 }
Threshold(total) ==
    LET m == sqrt(total) \div FixedOne
    IN IF m < 2 THEN 2 ELSE m

markTokensForDiscardStrictBug(toks, otherCounts, threshold) ==
    [i \in 1..Len(toks) |->
        IF MapGet(otherCounts, toks[i]) >= threshold
        THEN discardProvisional ELSE discardKeep]

markTokensForDiscard(toks, otherCounts, threshold) ==
    [i \in 1..Len(toks) |->
        IF MapGet(otherCounts, toks[i]) > threshold
        THEN discardProvisional ELSE discardKeep]

\* the exclusive end (0-based) of the run of non-kept entries starting at i
RECURSIVE runEndFrom(_, _)
runEndFrom(discard, i) ==
    IF i < Len(discard) /\ At(discard, i) # discardKeep
    THEN runEndFrom(discard, i + 1) ELSE i

hasEndpointsLeftOnlyBug(runStart, runEnd, n) == runStart > 0

\* hasLeftEndpoint && hasRightEndpoint: a kept token before and after the run
hasEndpoints(runStart, runEnd, n) == runStart > 0 /\ runEnd < n

\* the outer loop of applyProvisionalRules from index i (0-based)
RECURSIVE applyFrom(_, _)
applyFrom(discard, i) ==
    LET n == Len(discard) IN
    IF i >= n THEN discard
    ELSE IF At(discard, i) = discardKeep THEN applyFrom(discard, i + 1)
    ELSE LET runStart == i
             runEnd == runEndFrom(discard, i)
             provisionalCount ==
                 Cardinality({j \in runStart..(runEnd - 1) :
                                 At(discard, j) = discardProvisional})
             runLen == runEnd - runStart
             \* provisionalRatio >= 0.25
             restore == hasEndpoints(runStart, runEnd, n) /\ runLen > 0
                        /\ 4 * provisionalCount >= runLen
             next == [k \in 1..n |->
                        IF restore /\ k - 1 >= runStart /\ k - 1 < runEnd
                           /\ discard[k] = discardProvisional
                        THEN discardKeep ELSE discard[k]]
         IN applyFrom(next, runEnd)

applyProvisionalRulesNoRestoreBug(discard) == discard

applyProvisionalRules(discard) == applyFrom(discard, 0)

buildFilteredAllBug(toks, discard) == toks

\* filtered: the tokens whose final status is discardKeep
buildFiltered(toks, discard) ==
    SelectIdx(toks, [i \in 1..Len(toks) |-> discard[i] = discardKeep], 1)

\* map: the 0-based original indices of the kept tokens
buildMap(toks, discard) ==
    SelectIdx([i \in 1..Len(toks) |-> i - 1],
              [i \in 1..Len(toks) |-> discard[i] = discardKeep], 1)

DiscardConfusingTokens(t1, t2) ==
    LET counts1 == Counts(t1)
        counts2 == Counts(t2)
        total == Len(t1) + Len(t2)
        m == Threshold(total)
        d1 == applyProvisionalRules(markTokensForDiscard(t1, counts2, m))
        d2 == applyProvisionalRules(markTokensForDiscard(t2, counts1, m))
    IN [filtered1 |-> buildFiltered(t1, d1), filtered2 |-> buildFiltered(t2, d2),
        map1 |-> buildMap(t1, d1), map2 |-> buildMap(t2, d2)]

(***************************************************************************)
(* SpecFilter: DiscardConfusingTokens on every pair of token sequences of  *)
(* at most MaxLen tokens, one step per stage of the function.              *)
(***************************************************************************)
FilterTokens == {"a", "b"}

CtxIdle == ctxLines = <<>> /\ contextLines = 0 /\ filteredLines = <<>>

UnifiedIdle ==
    /\ udInput = <<>> /\ udScanned = 0 /\ oldLines = <<>> /\ newLines = <<>>
    /\ inHunk = FALSE /\ udOutput = <<>> /\ exitCode = -1

LoopIdle == interleaveI = 0 /\ interleaveResult = <<>>

ZeroStatistics ==
    [OldWords |-> 0, NewWords |-> 0, DeletedWords |-> 0,
     InsertedWords |-> 0, CommonWords |-> 0]

LineIdle ==
    /\ CtxIdle /\ UnifiedIdle /\ LoopIdle
    /\ statistics = ZeroStatistics
    /\ lines1 = <<>> /\ lines2 = <<>> /\ lineDiffs = <<>>
    /\ algorithm = "" /\ simThreshold = <<0, 1>> /\ simOf = <<>>
    /\ blockDeletes = <<>> /\ blockInserts = <<>> /\ pairings = <<>>
    /\ results = <<>> /\ blocks = <<>>

Idle ==
    /\ many = 0 /\ marked1 = <<>> /\ marked2 = <<>>
    /\ discard1 = <<>> /\ discard2 = <<>>
    /\ filtered1 = <<>> /\ filtered2 = <<>> /\ map1 = <<>> /\ map2 = <<>>
    /\ diffs = <<>> /\ minContext = 0 /\ out = <<>>
    /\ lower1 = <<>> /\ lower2 = <<>> /\ filteredDiffs = <<>>
    /\ text = <<>> /\ opts = <<>> /\ tokens = <<>> /\ positions = <<>>
    /\ LineIdle

InitFilter ==
    /\ pc = "start"
    /\ tokens1 \in SeqsUpTo(FilterTokens, MaxLen)
    /\ tokens2 \in SeqsUpTo(FilterTokens, MaxLen)
    /\ Idle

\* preprocess.go:28-50: counts, threshold, markTokensForDiscard on each side
Mark ==
    /\ pc = "start"
    /\ many' = Threshold(Len(tokens1) + Len(tokens2))
    /\ marked1' = markTokensForDiscard(tokens1, Counts(tokens2), many')
    /\ marked2' = markTokensForDiscard(tokens2, Counts(tokens1), many')
    /\ discard1' = marked1'
    /\ discard2' = marked2'
    /\ pc' = "marked"
    /\ UNCHANGED <<tokens1, tokens2, filtered1, filtered2, map1, map2, out>>
    /\ UNCHANGED <<postVars, caseVars, tokVars, lineVars, ctxVars, unifiedVars, loopVars>>

\* preprocess.go:53-54: applyProvisionalRules on each side, in place
Refine ==
    /\ pc = "marked"
    /\ discard1' = applyProvisionalRules(discard1)
    /\ discard2' = applyProvisionalRules(discard2)
    /\ pc' = "refined"
    /\ UNCHANGED <<tokens1, tokens2, many, marked1, marked2,
                   filtered1, filtered2, map1, map2, out>>
    /\ UNCHANGED <<postVars, caseVars, tokVars, lineVars, ctxVars, unifiedVars, loopVars>>

\* preprocess.go:57-75: the filtered lists and index maps
Build ==
    /\ pc = "refined"
    /\ filtered1' = buildFiltered(tokens1, discard1)
    /\ map1' = buildMap(tokens1, discard1)
    /\ filtered2' = buildFiltered(tokens2, discard2)
    /\ map2' = buildMap(tokens2, discard2)
    /\ pc' = "built"
    /\ UNCHANGED <<tokens1, tokens2, many, marked1, marked2, discard1, discard2, out>>
    /\ UNCHANGED <<postVars, caseVars, tokVars, lineVars, ctxVars, unifiedVars, loopVars>>

NextFilter == Mark \/ Refine \/ Build

SpecFilter == InitFilter /\ [][NextFilter]_vars

(***************************************************************************)
(* Claims about DiscardConfusingTokens, checked under SpecFilter.          *)
(***************************************************************************)
StrictlyIncreasing(m) == \A i \in 1..(Len(m) - 1) : m[i] < m[i + 1]

IndexMapOk(original, filtered, m) ==
    /\ Len(m) = Len(filtered)
    /\ StrictlyIncreasing(m)
    /\ \A i \in 1..Len(m) :
          /\ m[i] >= 0 /\ m[i] < Len(original)
          /\ At(original, m[i]) = filtered[i]

\* C6: each index map returned by DiscardConfusingTokens is strictly
\* increasing, as long as its filtered sequence, and original[map[i]] is
\* filtered[i] for every i, for every pair of inputs (empty ones included).
C6_IndexMaps ==
    pc = "built" =>
        /\ IndexMapOk(tokens1, filtered1, map1)
        /\ IndexMapOk(tokens2, filtered2, map2)

\* a result where side 1 keeps at least two tokens and drops at least one
C6_Witness ==
    /\ pc = "built"
    /\ Len(map1) >= 2
    /\ Len(map1) < Len(tokens1)

\* floor(sqrt(n))
ISqrt(n) == CHOOSE r \in 0..n : r * r <= n /\ (r + 1) * (r + 1) > n

\* C7: the discard threshold is max(2, floor(sqrt(len(tokensA)+len(tokensB))))
\* for every total token count.
C7_ThresholdFormula ==
    pc # "start" => many = Max(2, ISqrt(Len(tokens1) + Len(tokens2)))

\* the number of occurrences of side-k token i (1-based) on the other side
OtherCount1(i) == MapGet(Counts(tokens2), tokens1[i])
OtherCount2(i) == MapGet(Counts(tokens1), tokens2[i])

MaximalRuns(marked) ==
    {r \in (0..Len(marked)) \X (0..Len(marked)) :
        /\ r[1] < r[2]
        /\ \A j \in r[1]..(r[2] - 1) : At(marked, j) # discardKeep
        /\ r[1] = 0 \/ At(marked, r[1] - 1) = discardKeep
        /\ r[2] = Len(marked) \/ At(marked, r[2]) = discardKeep}

RunRestored(discard, r) ==
    \E j \in r[1]..(r[2] - 1) : At(discard, j) = discardKeep

RunRefinementOk(marked, discard, m) ==
    \A r \in MaximalRuns(marked) :
        /\ RunRestored(discard, r) =>
              /\ r[1] > 0 /\ At(marked, r[1] - 1) = discardKeep
              /\ r[2] < Len(marked) /\ At(marked, r[2]) = discardKeep
        /\ r[1] = 0 \/ r[2] = Len(marked) =>
              \A j \in r[1]..(r[2] - 1) :
                  /\ At(discard, j) # discardKeep
                  /\ pc = "built" => \A k \in 1..Len(m) : m[k] # j

\* C9: in the run-refinement pass a maximal run of non-kept tokens is
\* restored to Keep only if a kept token lies immediately before and
\* immediately after it; a run touching the first or last index of its side
\* is never restored, and all its tokens are absent from the filtered
\* sequence.
C9_EdgeRunsNeverRestored ==
    pc \in {"refined", "built"} =>
        /\ RunRefinementOk(marked1, discard1, map1)
        /\ RunRefinementOk(marked2, discard2, map2)

\* side 1 has a run touching an edge and a restored run in the middle
C9_Witness ==
    /\ pc = "built"
    /\ \E r \in MaximalRuns(marked1) : r[1] = 0 \/ r[2] = Len(marked1)
    /\ \E r \in MaximalRuns(marked1) : RunRestored(discard1, r)

(***************************************************************************)
(* tokendiff.go: Operation and Diff.                                       *)
(***************************************************************************)
Equal == 0
Insert == 1
Delete == 2

\* Diff{Type, Token}
Diff(type, token) == [Type |-> type, Token |-> token]

TypesOf(ds) == [i \in 1..Len(ds) |-> ds[i].Type]

(***************************************************************************)
(* postprocess.go                                                          *)
(***************************************************************************)
\* the exclusive end (0-based) of the run of ops of type tokenType from i
RECURSIVE runEndOfType(_, _, _)
runEndOfType(ds, i, tokenType) ==
    IF i < Len(ds) /\ At(ds, i).Type = tokenType
    THEN runEndOfType(ds, i + 1, tokenType) ELSE i

\* collectTokensOfType: <<tokens, index after the run>>
collectTokensOfType(ds, start, tokenType) ==
    LET i == runEndOfType(ds, start, tokenType)
    IN <<[j \in 1..(i - start) |-> At(ds, start + j - 1).Token], i>>

RECURSIVE findCommonPrefixFrom(_, _, _)
findCommonPrefixFrom(a, b, count) ==
    IF count < Len(a) /\ count < Len(b) /\ At(a, count) = At(b, count)
    THEN findCommonPrefixFrom(a, b, count + 1) ELSE count

findCommonPrefix(a, b) == findCommonPrefixFrom(a, b, 0)

findCommonSuffixZeroBug(a, b) == 0

RECURSIVE findCommonSuffixFrom(_, _, _)
findCommonSuffixFrom(a, b, count) ==
    IF count < Len(a) /\ count < Len(b)
       /\ At(a, Len(a) - 1 - count) = At(b, Len(b) - 1 - count)
    THEN findCommonSuffixFrom(a, b, count + 1) ELSE count

findCommonSuffix(a, b) == findCommonSuffixFrom(a, b, 0)

appendTokensAsDiffs(result, toks, tokenType) ==
    result \o [j \in 1..Len(toks) |-> Diff(tokenType, toks[j])]

\* the backward-shift loop of processDeleteInsertPair:
\* <<result, deleteTokens>> when the loop ends
RECURSIVE backwardShift(_, _)
backwardShift(result, deleteTokens) ==
    IF /\ Len(result) > 0
       /\ result[Len(result)].Type = Equal
       /\ Len(deleteTokens) > 0
       /\ result[Len(result)].Token = deleteTokens[1]
    THEN backwardShift(SubSeq(result, 1, Len(result) - 1),
                       Append(Tail(deleteTokens), deleteTokens[1]))
    ELSE <<result, deleteTokens>>

processDeleteInsertPair(result, deleteTokens, insertTokens) ==
    LET back == backwardShift(result, deleteTokens)
        result1 == back[1]
        del1 == back[2]
        commonPrefix == findCommonPrefix(del1, insertTokens)
        result2 == IF commonPrefix > 0
                   THEN appendTokensAsDiffs(result1, SubSeq(del1, 1, commonPrefix), Equal)
                   ELSE result1
        del2 == SubSeq(del1, commonPrefix + 1, Len(del1))
        ins2 == SubSeq(insertTokens, commonPrefix + 1, Len(insertTokens))
        commonSuffix == findCommonSuffix(del2, ins2)
        suffixTokens == SubSeq(del2, Len(del2) - commonSuffix + 1, Len(del2))
        del3 == SubSeq(del2, 1, Len(del2) - commonSuffix)
        ins3 == SubSeq(ins2, 1, Len(ins2) - commonSuffix)
    IN appendTokensAsDiffs(
           appendTokensAsDiffs(appendTokensAsDiffs(result2, del3, Delete), ins3, Insert),
           suffixTokens, Equal)

\* the loop of ShiftBoundaries from index i with the result built so far
RECURSIVE shiftFrom(_, _, _)
shiftFrom(ds, i, result) ==
    IF i >= Len(ds) THEN result
    ELSE IF At(ds, i).Type = Delete
         THEN LET dels == collectTokensOfType(ds, i, Delete)
                  inss == collectTokensOfType(ds, dels[2], Insert)
              IN shiftFrom(ds, inss[2],
                           processDeleteInsertPair(result, dels[1], inss[1]))
         ELSE shiftFrom(ds, i + 1, Append(result, At(ds, i)))

ShiftBoundaries(ds) == IF Len(ds) = 0 THEN ds ELSE shiftFrom(ds, 0, <<>>)

interleaveConcatBug(deletes, inserts) == deletes \o inserts

\* the j loop of InterleaveDiffs: Delete[j], Insert[j] for j < maxLen
interleave(deletes, inserts) ==
    LET maxLen == IF Len(inserts) > Len(deletes) THEN Len(inserts) ELSE Len(deletes)
        pair(j) == (IF j <= Len(deletes) THEN <<deletes[j]>> ELSE <<>>)
                   \o (IF j <= Len(inserts) THEN <<inserts[j]>> ELSE <<>>)
        RECURSIVE from(_)
        from(j) == IF j > maxLen THEN <<>> ELSE pair(j) \o from(j + 1)
    IN from(1)

\* one iteration of the outer loop of InterleaveDiffs: <<i, result>> after it.
\* An op that is neither Equal, Delete nor Insert matches no branch, and the
\* iteration changes nothing.
interleaveStep(ds, i, result) ==
    LET d == At(ds, i) IN
    IF d.Type = Equal THEN <<i + 1, Append(result, d)>>
    ELSE IF d.Type = Delete
         THEN LET deleteEnd == runEndOfType(ds, i, Delete)
                  insertEnd == runEndOfType(ds, deleteEnd, Insert)
                  deletes == SubSeq(ds, i + 1, deleteEnd)
                  inserts == SubSeq(ds, deleteEnd + 1, insertEnd)
              IN <<insertEnd, result \o interleave(deletes, inserts)>>
    ELSE IF d.Type = Insert THEN <<i + 1, Append(result, d)>>
    ELSE <<i, result>>

RECURSIVE interleaveFrom(_, _, _)
interleaveFrom(ds, i, result) ==
    IF i >= Len(ds) THEN result
    ELSE LET st == interleaveStep(ds, i, result)
         IN interleaveFrom(ds, st[1], st[2])

InterleaveDiffs(ds) == IF Len(ds) = 0 THEN ds ELSE interleaveFrom(ds, 0, <<>>)

isChangeDeleteOnlyBug(type) == type = Delete

isChange(type) == type = Delete \/ type = Insert

convertEqualDeleteOnlyBug(token) == <<Diff(Delete, token)>>

\* ApplyMatchContext: an Equal token of a short sandwiched run becomes
\* Delete(token), Insert(token)
convertEqual(token) == <<Diff(Delete, token), Diff(Insert, token)>>

RECURSIVE concatConverted(_, _, _)
concatConverted(ds, from, to) ==
    IF from >= to THEN <<>>
    ELSE convertEqual(At(ds, from).Token) \o concatConverted(ds, from + 1, to)

RECURSIVE matchContextFrom(_, _, _, _)
matchContextFrom(ds, mc, i, result) ==
    IF i >= Len(ds) THEN result
    ELSE IF At(ds, i).Type # Equal
         THEN matchContextFrom(ds, mc, i + 1, Append(result, At(ds, i)))
    ELSE LET equalStart == i
             equalEnd == runEndOfType(ds, i, Equal)
             equalCount == equalEnd - equalStart
             hasPrevChange == equalStart > 0 /\ isChange(At(ds, equalStart - 1).Type)
             hasNextChange == equalEnd < Len(ds) /\ isChange(At(ds, equalEnd).Type)
         IN IF hasPrevChange /\ hasNextChange /\ equalCount < mc
            THEN matchContextFrom(ds, mc, equalEnd,
                                  result \o concatConverted(ds, equalStart, equalEnd))
            ELSE matchContextFrom(ds, mc, equalEnd,
                                  result \o SubSeq(ds, equalStart + 1, equalEnd))

ApplyMatchContext(ds, mc) ==
    IF mc <= 0 \/ Len(ds) = 0 THEN ds ELSE matchContextFrom(ds, mc, 0, <<>>)

stopwords ==
    {"-", ".", ",", ":", ";", "(", ")", "[", "]",
     "a", "an", "the", "to", "of", "in", "on", "at",
     "for", "and", "or", "is", "it", "with", "as", "by", "be"}

stopwordPairDeleteFirstBug(prevType, token) ==
    <<Diff(Delete, token), Diff(Insert, token)>>

\* the two ops that replace a stopword anchor, ordered after the op before it
stopwordPair(prevType, token) ==
    IF prevType = Insert
    THEN <<Diff(Insert, token), Diff(Delete, token)>>
    ELSE <<Diff(Delete, token), Diff(Insert, token)>>

RECURSIVE stopwordFrom(_, _, _)
stopwordFrom(ds, i, result) ==
    IF i >= Len(ds) THEN result
    ELSE IF At(ds, i).Type # Equal
         THEN stopwordFrom(ds, i + 1, Append(result, At(ds, i)))
    ELSE LET equalStart == i
             equalEnd == runEndOfType(ds, i, Equal)
             equalCount == equalEnd - equalStart
             prevType == IF equalStart > 0 THEN At(ds, equalStart - 1).Type ELSE -1
             nextType == IF equalEnd < Len(ds) THEN At(ds, equalEnd).Type ELSE -1
             token == At(ds, equalStart).Token
         IN IF equalCount = 1 /\ isChange(prevType) /\ isChange(nextType)
               /\ token \in stopwords
            THEN stopwordFrom(ds, equalEnd,
                     result \o stopwordPair(prevType, token))
            ELSE stopwordFrom(ds, equalEnd,
                              result \o SubSeq(ds, equalStart + 1, equalEnd))

EliminateStopwordAnchors(ds) ==
    IF Len(ds) = 0 THEN ds ELSE stopwordFrom(ds, 0, <<>>)

(***************************************************************************)
(* SpecPost: each post-processing pass applied to every Diff sequence of   *)
(* at most MaxDiffLen ops over a stopword ("a") and a non-stopword ("x").  *)
(***************************************************************************)
\* longest Diff sequence handed to a pass
MaxDiffLen == 4

\* largest minContext given to ApplyMatchContext
MaxContext == 3

PostTokens == {"a", "x"}

DiffOps == {Diff(ty, tk) : ty \in {Equal, Insert, Delete}, tk \in PostTokens}

InitPost ==
    /\ pc = "start"
    /\ diffs \in SeqsUpTo(DiffOps, MaxDiffLen)
    /\ tokens1 = <<>> /\ tokens2 = <<>>
    /\ many = 0 /\ marked1 = <<>> /\ marked2 = <<>>
    /\ discard1 = <<>> /\ discard2 = <<>>
    /\ filtered1 = <<>> /\ filtered2 = <<>> /\ map1 = <<>> /\ map2 = <<>>
    /\ minContext = 0 /\ out = <<>>
    /\ lower1 = <<>> /\ lower2 = <<>> /\ filteredDiffs = <<>>
    /\ text = <<>> /\ opts = <<>> /\ tokens = <<>> /\ positions = <<>>
    /\ LineIdle

PostFrame ==
    /\ UNCHANGED <<tokens1, tokens2, diffs>>
    /\ UNCHANGED <<filterVars, caseVars, tokVars, lineVars, ctxVars, unifiedVars, loopVars>>

DoShiftBoundaries ==
    /\ pc = "start"
    /\ out' = ShiftBoundaries(diffs)
    /\ pc' = "ShiftBoundaries"
    /\ UNCHANGED minContext
    /\ PostFrame

DoInterleaveDiffs ==
    /\ pc = "start"
    /\ out' = InterleaveDiffs(diffs)
    /\ pc' = "InterleaveDiffs"
    /\ UNCHANGED minContext
    /\ PostFrame

DoApplyMatchContext ==
    /\ pc = "start"
    /\ \E mc \in (-1)..MaxContext :
          /\ minContext' = mc
          /\ out' = ApplyMatchContext(diffs, mc)
    /\ pc' = "ApplyMatchContext"
    /\ PostFrame

DoEliminateStopwordAnchors ==
    /\ pc = "start"
    /\ out' = EliminateStopwordAnchors(diffs)
    /\ pc' = "EliminateStopwordAnchors"
    /\ UNCHANGED minContext
    /\ PostFrame

NextPost ==
    \/ DoShiftBoundaries
    \/ DoInterleaveDiffs
    \/ DoApplyMatchContext
    \/ DoEliminateStopwordAnchors

SpecPost == InitPost /\ [][NextPost]_vars

(***************************************************************************)
(* Claims about the post-processing passes, checked under SpecPost.        *)
(***************************************************************************)
\* the tokens of the ops of ds whose type is in types, in order
RECURSIVE TokensOfTypes(_, _)
TokensOfTypes(ds, types) ==
    IF ds = <<>> THEN <<>>
    ELSE (IF Head(ds).Type \in types THEN <<Head(ds).Token>> ELSE <<>>)
         \o TokensOfTypes(Tail(ds), types)

OldTokens(ds) == TokensOfTypes(ds, {Equal, Delete})

NewTokens(ds) == TokensOfTypes(ds, {Equal, Insert})

SameAccounting(a, b) ==
    OldTokens(a) = OldTokens(b) /\ NewTokens(a) = NewTokens(b)

\* C1: ShiftBoundaries preserves token accounting: the output's Equal+Delete
\* tokens are the input's, in order, and so are its Equal+Insert tokens.
C1_ShiftPreservesAccounting ==
    pc = "ShiftBoundaries" => SameAccounting(out, diffs)

\* C2: ApplyMatchContext (any minContext), InterleaveDiffs and
\* EliminateStopwordAnchors each preserve token accounting.
C2_PassesPreserveAccounting ==
    pc \in {"ApplyMatchContext", "InterleaveDiffs", "EliminateStopwordAnchors"}
        => SameAccounting(out, diffs)

\* ApplyMatchContext has converted a sandwiched Equal run
C2_Witness ==
    /\ pc = "ApplyMatchContext"
    /\ minContext > 0
    /\ out # diffs
    /\ \E i \in 1..Len(diffs) : diffs[i].Type = Equal

(***************************************************************************)
(* tokendiff.go: the case-insensitive diff paths.                          *)
(***************************************************************************)
\* strings.ToLower on the tokens of the model: "A" folds to "a"
ToLower(t) == IF t = "A" THEN "a" ELSE t

lowerAll(toks) == [i \in 1..Len(toks) |-> ToLower(toks[i])]

\* Every alignment of a[i..] with b[j..]: a sequence of op types, one per
\* token, where Equal consumes a token of each side and the two are equal,
\* Delete consumes a token of a, and Insert a token of b.
RECURSIVE Alignments(_, _, _, _)
Alignments(a, b, i, j) ==
    IF i > Len(a) /\ j > Len(b) THEN {<<>>}
    ELSE (IF i <= Len(a)
          THEN {<<Delete>> \o r : r \in Alignments(a, b, i + 1, j)} ELSE {})
         \cup
         (IF j <= Len(b)
          THEN {<<Insert>> \o r : r \in Alignments(a, b, i, j + 1)} ELSE {})
         \cup
         (IF i <= Len(a) /\ j <= Len(b) /\ a[i] = b[j]
          THEN {<<Equal>> \o r : r \in Alignments(a, b, i + 1, j + 1)} ELSE {})

\* diffx.DiffHistogram, the external matcher: the op lists it may return,
\* one op type per token (its runs partition both inputs completely and in
\* order); identical inputs give a single Equal run.
DiffHistogram(a, b) ==
    IF a = b THEN {[k \in 1..Len(a) |-> Equal]} ELSE Alignments(a, b, 1, 1)

\* diffxOpsToDiffs from op k, with i and j tokens of each side consumed
RECURSIVE opsToDiffsFrom(_, _, _, _, _, _)
opsToDiffsFrom(ops, t1, t2, k, i, j) ==
    IF k > Len(ops) THEN <<>>
    ELSE IF ops[k] = Equal
         THEN <<Diff(Equal, At(t1, i))>> \o opsToDiffsFrom(ops, t1, t2, k + 1, i + 1, j + 1)
    ELSE IF ops[k] = Delete
         THEN <<Diff(Delete, At(t1, i))>> \o opsToDiffsFrom(ops, t1, t2, k + 1, i + 1, j)
    ELSE <<Diff(Insert, At(t2, j))>> \o opsToDiffsFrom(ops, t1, t2, k + 1, i, j + 1)

diffxOpsToDiffs(ops, t1, t2) == opsToDiffsFrom(ops, t1, t2, 1, 0, 0)

\* DiffTokens: the results the matcher allows
DiffTokens(t1, t2) == {diffxOpsToDiffs(ops, t1, t2) : ops \in DiffHistogram(t1, t2)}

ignoreCaseEqualTokenOldBug(t1, t2, i, j) == At(t1, i)

\* diffTokensIgnoreCase: an Equal op takes its token from tokens2
ignoreCaseEqualToken(t1, t2, i, j) == At(t2, j)

\* the conversion loop of diffTokensIgnoreCase from op k
RECURSIVE ignoreCaseFrom(_, _, _, _, _, _)
ignoreCaseFrom(ops, t1, t2, k, i, j) ==
    IF k > Len(ops) THEN <<>>
    ELSE IF ops[k] = Equal
         THEN <<Diff(Equal, ignoreCaseEqualToken(t1, t2, i, j))>>
              \o ignoreCaseFrom(ops, t1, t2, k + 1, i + 1, j + 1)
    ELSE IF ops[k] = Delete
         THEN <<Diff(Delete, At(t1, i))>> \o ignoreCaseFrom(ops, t1, t2, k + 1, i + 1, j)
    ELSE <<Diff(Insert, At(t2, j))>> \o ignoreCaseFrom(ops, t1, t2, k + 1, i, j + 1)

\* diffTokensIgnoreCase: the results the matcher allows
diffTokensIgnoreCase(t1, t2) ==
    {ignoreCaseFrom(ops, t1, t2, 1, 0, 0) :
        ops \in DiffHistogram(lowerAll(t1), lowerAll(t2))}

\* for origIdx < target: append Diff{tokenType, toks[origIdx]}
flushUpTo(result, toks, origIdx, target, tokenType) ==
    result \o [k \in 1..(target - origIdx) |-> Diff(tokenType, At(toks, origIdx + k - 1))]

expandTrailingNoneBug(result, t1, t2, origIdx1, origIdx2) == result

\* the two loops after the main loop of expandFilteredDiffsWithCase
expandTrailing(result, t1, t2, origIdx1, origIdx2) ==
    flushUpTo(flushUpTo(result, t1, origIdx1, Max(origIdx1, Len(t1)), Delete),
              t2, origIdx2, Max(origIdx2, Len(t2)), Insert)

\* the main loop of expandFilteredDiffsWithCase from filteredDiffs[k]
\* (1-based), st = <<origIdx1, origIdx2, filtIdx1, filtIdx2>>. The inner
\* loops "for origIdx < targetOrig" leave origIdx at max(origIdx, targetOrig);
\* targetOrig1 and targetOrig2 below name origIdx1 and origIdx2 after them.
RECURSIVE expandFrom(_, _, _, _, _, _, _, _)
expandFrom(fd, t1, t2, m1, m2, k, st, result) ==
    LET origIdx1 == st[1]
        origIdx2 == st[2]
        filtIdx1 == st[3]
        filtIdx2 == st[4]
    IN
    IF k > Len(fd) THEN expandTrailing(result, t1, t2, origIdx1, origIdx2)
    ELSE IF fd[k].Type = Equal
         THEN LET targetOrig1 == Max(origIdx1, At(m1, filtIdx1))
                  targetOrig2 == Max(origIdx2, At(m2, filtIdx2))
                  r1 == flushUpTo(result, t1, origIdx1, targetOrig1, Delete)
                  r2 == flushUpTo(r1, t2, origIdx2, targetOrig2, Insert)
              IN expandFrom(fd, t1, t2, m1, m2, k + 1,
                            <<targetOrig1 + 1, targetOrig2 + 1, filtIdx1 + 1, filtIdx2 + 1>>,
                            Append(r2, Diff(Equal, At(t2, targetOrig2))))
    ELSE IF fd[k].Type = Delete
         THEN LET targetOrig1 == Max(origIdx1, At(m1, filtIdx1))
                  r1 == flushUpTo(result, t1, origIdx1, targetOrig1, Delete)
              IN expandFrom(fd, t1, t2, m1, m2, k + 1,
                            <<targetOrig1 + 1, origIdx2, filtIdx1 + 1, filtIdx2>>,
                            Append(r1, Diff(Delete, At(t1, targetOrig1))))
    ELSE IF fd[k].Type = Insert
         THEN LET targetOrig2 == Max(origIdx2, At(m2, filtIdx2))
                  r2 == flushUpTo(result, t2, origIdx2, targetOrig2, Insert)
              IN expandFrom(fd, t1, t2, m1, m2, k + 1,
                            <<origIdx1, targetOrig2 + 1, filtIdx1, filtIdx2 + 1>>,
                            Append(r2, Diff(Insert, At(t2, targetOrig2))))
    ELSE expandFrom(fd, t1, t2, m1, m2, k + 1, st, result)

expandFilteredDiffsWithCase(fd, t1, t2, l1, l2, m1, m2) ==
    expandFrom(fd, t1, t2, m1, m2, 1, <<0, 0, 0, 0>>, <<>>)

(***************************************************************************)
(* SpecCase: DiffStrings and DiffStringsWithPreprocessing with IgnoreCase  *)
(* set, from the token sequences Tokenize returned.                        *)
(***************************************************************************)
\* the longer and the shorter side of an arbitrary pair of token sequences
MaxCaseLong == 3
MaxCaseShort == 2

\* the longest pair of token sequences that are equal after lower-casing
MaxFoldLen == 5

CaseTokens == {"A", "a", "b"}

\* the case variants of a lower-cased sequence
Variants(low) ==
    {v \in [1..Len(low) -> CaseTokens] : lowerAll(v) = low}

CaseInputs ==
    {p \in SeqsUpTo(CaseTokens, MaxCaseLong) \X SeqsUpTo(CaseTokens, MaxCaseLong) :
        Len(p[1]) <= MaxCaseShort \/ Len(p[2]) <= MaxCaseShort}
    \cup
    UNION {Variants(low) \X Variants(low) : low \in SeqsUpTo({"a", "b"}, MaxFoldLen)}

InitCase ==
    /\ pc = "start"
    /\ \E p \in CaseInputs : tokens1 = p[1] /\ tokens2 = p[2]
    /\ Idle

\* DiffStrings with opts.IgnoreCase (tokendiff.go:161-163)
DoDiffStrings ==
    /\ pc = "start"
    /\ lower1' = lowerAll(tokens1)
    /\ lower2' = lowerAll(tokens2)
    /\ out' \in diffTokensIgnoreCase(tokens1, tokens2)
    /\ pc' = "DiffStrings"
    /\ UNCHANGED <<tokens1, tokens2, filteredDiffs, filterVars, postVars, tokVars, lineVars, ctxVars, unifiedVars, loopVars>>

\* DiffStringsWithPreprocessing with opts.IgnoreCase (tokendiff.go:287-298):
\* diffTokensIgnoreCaseWithPreprocessing
DoDiffStringsWithPreprocessing ==
    /\ pc = "start"
    /\ lower1' = lowerAll(tokens1)
    /\ lower2' = lowerAll(tokens2)
    /\ \E r \in {DiscardConfusingTokens(lowerAll(tokens1), lowerAll(tokens2))} :
          /\ filtered1' = r.filtered1
          /\ filtered2' = r.filtered2
          /\ map1' = r.map1
          /\ map2' = r.map2
          /\ \/ /\ Len(r.filtered1) = 0 /\ Len(r.filtered2) = 0
                /\ out' \in diffTokensIgnoreCase(tokens1, tokens2)
                /\ filteredDiffs' = <<>>
                /\ diffs' = <<>>
                /\ pc' = "fallback"
             \/ /\ ~(Len(r.filtered1) = 0 /\ Len(r.filtered2) = 0)
                /\ \E fd \in DiffTokens(r.filtered1, r.filtered2) :
                   \E expandedDiffs \in
                          {expandFilteredDiffsWithCase(fd, tokens1, tokens2,
                               lowerAll(tokens1), lowerAll(tokens2), r.map1, r.map2)} :
                      /\ filteredDiffs' = fd
                      /\ diffs' = expandedDiffs
                      /\ out' = ShiftBoundaries(expandedDiffs)
                /\ pc' = "preprocessed"
    /\ UNCHANGED <<tokens1, tokens2, many, marked1, marked2, discard1, discard2,
                   minContext, tokVars, lineVars, ctxVars, unifiedVars, loopVars>>

NextCase == DoDiffStrings \/ DoDiffStringsWithPreprocessing

SpecCase == InitCase /\ [][NextCase]_vars

(***************************************************************************)
(* Claims about the case-insensitive paths, checked under SpecCase.        *)
(***************************************************************************)
\* the ops of ds whose type is in types, in order
RECURSIVE OpsOfTypes(_, _)
OpsOfTypes(ds, types) ==
    IF ds = <<>> THEN <<>>
    ELSE (IF Head(ds).Type \in types THEN <<Head(ds)>> ELSE <<>>)
         \o OpsOfTypes(Tail(ds), types)

\* the 0-based index i of a side is absent from that side's index map
FilteredOut(m, i) == \A k \in 1..Len(m) : m[k] # i

\* C3: confusing-token filtering never removes a token from the result:
\* the sequence expandFilteredDiffsWithCase returns has exactly len(tokens1)
\* Delete-or-Equal ops and len(tokens2) Insert-or-Equal ops, and every
\* filtered-out old token is a Delete and every filtered-out new token an
\* Insert at its original place in the order of its side.
C3_ExpandKeepsEveryToken ==
    pc = "preprocessed" =>
        LET old == OpsOfTypes(diffs, {Equal, Delete})
            new == OpsOfTypes(diffs, {Equal, Insert})
        IN /\ Len(old) = Len(tokens1)
           /\ Len(new) = Len(tokens2)
           /\ \A i \in 1..Len(tokens1) :
                 FilteredOut(map1, i - 1) => old[i] = Diff(Delete, tokens1[i])
           /\ \A j \in 1..Len(tokens2) :
                 FilteredOut(map2, j - 1) => new[j] = Diff(Insert, tokens2[j])

\* the last old token and some new token were filtered out, and the diff of
\* the filtered sequences was expanded
C3_Witness ==
    /\ pc = "preprocessed"
    /\ Len(tokens1) > 0 /\ FilteredOut(map1, Len(tokens1) - 1)
    /\ \E j \in 1..Len(tokens2) : FilteredOut(map2, j - 1)
    /\ Len(filteredDiffs) > 0

AllEqual(ds) == \A i \in 1..Len(ds) : ds[i].Type = Equal

\* C4: with IgnoreCase set, two token sequences that are equal after
\* lower-casing give a diff of Equal ops only, through DiffStrings and
\* through the preprocessing path.
C4_SameFoldAllEqual ==
    (/\ pc \in {"DiffStrings", "fallback", "preprocessed"}
     /\ lowerAll(tokens1) = lowerAll(tokens2))
        => AllEqual(out)

\* ds read against the two sides from op k, with i old and j new tokens
\* consumed: an Equal op carries the next new token and folds to the next
\* old one, a Delete the next old token, an Insert the next new token, and
\* both sides are consumed at the end.
RECURSIVE CarriesOriginals(_, _, _, _, _, _)
CarriesOriginals(ds, t1, t2, k, i, j) ==
    IF k > Len(ds) THEN i = Len(t1) /\ j = Len(t2)
    ELSE IF ds[k].Type = Equal
         THEN /\ i < Len(t1) /\ j < Len(t2)
              /\ ds[k].Token = At(t2, j)
              /\ ToLower(At(t1, i)) = ToLower(At(t2, j))
              /\ CarriesOriginals(ds, t1, t2, k + 1, i + 1, j + 1)
    ELSE IF ds[k].Type = Delete
         THEN /\ i < Len(t1)
              /\ ds[k].Token = At(t1, i)
              /\ CarriesOriginals(ds, t1, t2, k + 1, i + 1, j)
    ELSE /\ ds[k].Type = Insert
         /\ j < Len(t2)
         /\ ds[k].Token = At(t2, j)
         /\ CarriesOriginals(ds, t1, t2, k + 1, i, j + 1)

\* every op's token is a token of its side in its original casing
FromOriginals(ds, t1, t2) ==
    \A k \in 1..Len(ds) :
        IF ds[k].Type = Delete THEN ds[k].Token \in Range(t1)
        ELSE ds[k].Token \in Range(t2)

\* C5: in case-insensitive mode every Equal op carries the new-text token
\* in its original casing, every Delete op the old-text token and every
\* Insert op the new-text token in theirs: position by position in what
\* diffTokensIgnoreCase and expandFilteredDiffsWithCase return, and token by
\* token in the final result of the preprocessing path.
C5_OriginalCasing ==
    /\ pc \in {"DiffStrings", "fallback"} =>
          CarriesOriginals(out, tokens1, tokens2, 1, 0, 0)
    /\ pc = "preprocessed" =>
          /\ CarriesOriginals(diffs, tokens1, tokens2, 1, 0, 0)
          /\ FromOriginals(out, tokens1, tokens2)

\* diffTokensIgnoreCase matched an old "a" with a new "A" and reports "A"
C5_Witness ==
    /\ pc = "DiffStrings"
    /\ \E k \in 1..Len(out) : out[k].Type = Equal /\ out[k].Token = "A"
    /\ \A i \in 1..Len(tokens1) : tokens1[i] # "A"
    /\ \E k \in 1..Len(out) : out[k].Type = Delete

\* ------------------------------------------------------------------
\* tokenize.go: TokenizeWithPositions
\* ------------------------------------------------------------------
\* A Go string is a sequence of bytes; text[i] is At(text, i) and len(text) is
\* Len(text). Runes are code points.

\* tokendiff.go:31
DefaultDelimiters == <<>>

\* utf8.RuneError, the rune `range` yields for a byte that starts no valid encoding
RuneError == 65533

isContinuation(b) == b >= 128 /\ b <= 191

\* `for _, r := range s`: the rune decoded at byte offset i and the number of
\* bytes the loop advances by. One- and two-byte encodings are decoded; every
\* other byte yields RuneError and advances by one byte (TextBytes holds no
\* lead byte of a three- or four-byte encoding).
decodeRune(s, i) ==
    LET b == At(s, i) IN
    IF b < 128 THEN [r |-> b, size |-> 1]
    ELSE IF b >= 194 /\ b <= 223 /\ i + 1 < Len(s) /\ isContinuation(At(s, i + 1))
    THEN [r |-> (b % 32) * 64 + (At(s, i + 1) % 64), size |-> 2]
    ELSE [r |-> RuneError, size |-> 1]

\* utf8.RuneLen
RuneLen(r) ==
    IF r < 0 THEN -1
    ELSE IF r < 128 THEN 1
    ELSE IF r < 2048 THEN 2
    ELSE IF r >= 55296 /\ r <= 57343 THEN -1
    ELSE IF r < 65536 THEN 3
    ELSE IF r <= 1114111 THEN 4
    ELSE -1

\* string(r) and strings.Builder.WriteRune(r): the UTF-8 encoding of r
\* (runes below U+10000, which is all decodeRune yields)
EncodeRune(r) ==
    IF r < 128 THEN <<r>>
    ELSE IF r < 2048 THEN <<192 + (r \div 64), 128 + (r % 64)>>
    ELSE <<224 + (r \div 4096), 128 + ((r \div 64) % 64), 128 + (r % 64)>>

\* the runes `for _, r := range s` yields from byte offset i on
RECURSIVE runesFrom(_, _)
runesFrom(s, i) ==
    IF i >= Len(s) THEN {}
    ELSE LET d == decodeRune(s, i) IN {d.r} \cup runesFrom(s, i + d.size)

\* tokenize.go:166-168
isWhitespace(r) == r \in {32, 9, 10, 13}

\* unicode.IsPunct, for the runes below U+0100
IsPunct(r) ==
    r \in {33, 34, 35, 37, 38, 39, 40, 41, 42, 44, 45, 46, 47, 58, 59, 63, 64,
           91, 92, 93, 95, 123, 125, 161, 167, 171, 182, 183, 187, 191}

\* tokenize.go:21-34
isDelimiter(o, r) ==
    IF o.UsePunctuation THEN IsPunct(r)
    ELSE r \in runesFrom(IF o.Delimiters = <<>> THEN DefaultDelimiters
                         ELSE o.Delimiters, 0)

\* tokenize.go:37-48
isWS(o, r) ==
    IF o.Whitespace = <<>> THEN isWhitespace(r)
    ELSE r \in runesFrom(o.Whitespace, 0)

\* tokenize.go:10-13
TokenPos(start, end) == [Start |-> start, End |-> end]

\* tokenize.go:55-62; st holds tokens, positions, currentWord, wordStart
flushWord(st, pos) ==
    IF Len(st.currentWord) > 0
    THEN [tokens |-> Append(st.tokens, st.currentWord),
          positions |-> Append(st.positions, TokenPos(st.wordStart, pos)),
          currentWord |-> <<>>,
          wordStart |-> -1]
    ELSE st

\* tokenize.go:66-85: the switch on one rune r, with the counter at i
tokenizeRune(st, o, r, i) ==
    LET runeLen == RuneLen(r) IN
    IF isDelimiter(o, r)
    THEN LET f == flushWord(st, i) IN
         [f EXCEPT !.tokens = Append(@, EncodeRune(r)),
                   !.positions = Append(@, TokenPos(i, i + runeLen))]
    ELSE IF isWS(o, r)
    THEN LET f == flushWord(st, i) IN
         IF o.PreserveWhitespace
         THEN [f EXCEPT !.tokens = Append(@, EncodeRune(r)),
                        !.positions = Append(@, TokenPos(i, i + runeLen))]
         ELSE f
    ELSE [st EXCEPT !.wordStart = IF @ = -1 THEN i ELSE @,
                    !.currentWord = @ \o EncodeRune(r)]

\* tokenize.go:64-89: the loop; p is the byte offset `range` is at, i the
\* counter the code advances by utf8.RuneLen(r)
RECURSIVE tokenizeFrom(_, _, _, _, _)
tokenizeFrom(s, o, p, i, st) ==
    IF p >= Len(s) THEN flushWord(st, i)
    ELSE LET d == decodeRune(s, p) IN
         tokenizeFrom(s, o, p + d.size, i + RuneLen(d.r),
                      tokenizeRune(st, o, d.r, i))

\* tokenize.go:17-91
TokenizeWithPositions(s, o) ==
    LET st == tokenizeFrom(s, o, 0, 0,
                  [tokens |-> <<>>, positions |-> <<>>,
                   currentWord |-> <<>>, wordStart |-> -1])
    IN [tokens |-> st.tokens, positions |-> st.positions]

\* tokenize.go:134-139; st holds tokens and currentWord
flushWordTokens(st) ==
    IF Len(st.currentWord) > 0
    THEN [tokens |-> Append(st.tokens, st.currentWord), currentWord |-> <<>>]
    ELSE st

tokenizeSwitchWhitespaceFirstBug(st, o, r) ==
    IF isWS(o, r)
    THEN LET f == flushWordTokens(st) IN
         IF o.PreserveWhitespace
         THEN [f EXCEPT !.tokens = Append(@, EncodeRune(r))]
         ELSE f
    ELSE IF isDelimiter(o, r)
    THEN [flushWordTokens(st) EXCEPT !.tokens = Append(@, EncodeRune(r))]
    ELSE [st EXCEPT !.currentWord = @ \o EncodeRune(r)]

\* tokenize.go:142-158: the switch on one rune r
tokenizeSwitch(st, o, r) ==
    IF isDelimiter(o, r)
    THEN [flushWordTokens(st) EXCEPT !.tokens = Append(@, EncodeRune(r))]
    ELSE IF isWS(o, r)
    THEN LET f == flushWordTokens(st) IN
         IF o.PreserveWhitespace
         THEN [f EXCEPT !.tokens = Append(@, EncodeRune(r))]
         ELSE f
    ELSE [st EXCEPT !.currentWord = @ \o EncodeRune(r)]

\* tokenize.go:141-161: the loop and the final flushWord
RECURSIVE tokenizeTokensFrom(_, _, _, _)
tokenizeTokensFrom(s, o, p, st) ==
    IF p >= Len(s) THEN flushWordTokens(st)
    ELSE LET d == decodeRune(s, p) IN
         tokenizeTokensFrom(s, o, p + d.size, tokenizeSwitch(st, o, d.r))

\* tokenize.go:96-163
Tokenize(s, o) ==
    tokenizeTokensFrom(s, o, 0, [tokens |-> <<>>, currentWord |-> <<>>]).tokens

\* ------------------------------------------------------------------
\* Specification of the tokenizer
\* ------------------------------------------------------------------
MaxTextLen == 3

\* 'a', '(', ' ', the two bytes of U+00E9, and 0xFF, which is valid nowhere
TextBytes == {97, 40, 32, 195, 169, 255}

\* README "Working with Tokens": the text "foo(bar, baz)"
ReadmeTexts == {<<102, 111, 111, 40, 98, 97, 114, 44, 32, 98, 97, 122, 41>>}

\* Options: default or explicit delimiters, default or explicit whitespace
OptionsSet ==
    [UsePunctuation : BOOLEAN,
     Delimiters : {<<>>, <<40>>, <<255>>},
     Whitespace : {<<>>, <<97>>, <<40, 32>>},
     PreserveWhitespace : BOOLEAN]

InitTok ==
    /\ pc = "start"
    /\ text \in SeqsUpTo(TextBytes, MaxTextLen) \cup ReadmeTexts
    /\ opts \in OptionsSet
    /\ tokens = <<>> /\ positions = <<>>
    /\ tokens1 = <<>> /\ tokens2 = <<>>
    /\ many = 0 /\ marked1 = <<>> /\ marked2 = <<>>
    /\ discard1 = <<>> /\ discard2 = <<>>
    /\ filtered1 = <<>> /\ filtered2 = <<>> /\ map1 = <<>> /\ map2 = <<>>
    /\ diffs = <<>> /\ minContext = 0 /\ out = <<>>
    /\ lower1 = <<>> /\ lower2 = <<>> /\ filteredDiffs = <<>>
    /\ LineIdle

DoTokenizeWithPositions ==
    /\ pc = "start"
    /\ \E r \in {TokenizeWithPositions(text, opts)} :
          /\ tokens' = r.tokens
          /\ positions' = r.positions
    /\ pc' = "tokenized"
    /\ UNCHANGED <<text, opts, tokens1, tokens2, out>>
    /\ UNCHANGED <<filterVars, postVars, caseVars, lineVars, ctxVars, unifiedVars, loopVars>>

DoTokenize ==
    /\ pc = "start"
    /\ tokens' = Tokenize(text, opts)
    /\ positions' = <<>>
    /\ pc' = "Tokenize"
    /\ UNCHANGED <<text, opts, tokens1, tokens2, out>>
    /\ UNCHANGED <<filterVars, postVars, caseVars, lineVars, ctxVars, unifiedVars, loopVars>>

NextTok == DoTokenizeWithPositions \/ DoTokenize

SpecTok == InitTok /\ [][NextTok]_vars

\* ------------------------------------------------------------------
\* Claims about the tokenizer
\* ------------------------------------------------------------------

\* text[a:b] in Go, for 0 <= a <= b <= len(s)
Slice(s, a, b) == [k \in 1..(b - a) |-> s[a + k]]

SpanOk(s, tok, pos) ==
    /\ 0 <= pos.Start
    /\ pos.Start <= pos.End
    /\ pos.End <= Len(s)
    /\ Slice(s, pos.Start, pos.End) = tok

\* C10: for every text and every policy, TokenizeWithPositions returns one
\* span per token, each with Start <= End, inside [0, len(text)] and with
\* text[Start:End] equal to the token, and consecutive spans do not overlap
\* (End of one <= Start of the next).
C10_SpansReproduceTokens ==
    pc = "tokenized" =>
        /\ Len(positions) = Len(tokens)
        /\ \A k \in 1..Len(positions) : SpanOk(text, tokens[k], positions[k])
        /\ \A k \in 1..(Len(positions) - 1) :
              positions[k].End <= positions[k + 1].Start

\* the runes `range` yields from s, in order, from byte offset i on
RECURSIVE runeSeqFrom(_, _)
runeSeqFrom(s, i) ==
    IF i >= Len(s) THEN <<>>
    ELSE LET d == decodeRune(s, i) IN <<d.r>> \o runeSeqFrom(s, i + d.size)

\* r is in the delimiter set and in the whitespace set of policy o
InBothSets(o, r) == isDelimiter(o, r) /\ isWS(o, r)

\* the subsequence of s whose elements are in S
RECURSIVE Restrict(_, _)
Restrict(s, S) ==
    IF s = <<>> THEN <<>>
    ELSE (IF Head(s) \in S THEN <<Head(s)>> ELSE <<>>) \o Restrict(Tail(s), S)

\* C11: Tokenize returns the empty sequence for the empty text, never emits
\* an empty token, and every character of the text that is both a delimiter
\* and whitespace under the policy comes out as a token of its own holding
\* just that character, in text order, whatever PreserveWhitespace is.
C11_TokenizeContract ==
    pc = "Tokenize" =>
        /\ (text = <<>> => tokens = <<>>)
        /\ \A k \in 1..Len(tokens) : tokens[k] # <<>>
        /\ LET runes == runeSeqFrom(text, 0)
               both == {r \in Range(runes) : InBothSets(opts, r)}
           IN Restrict(tokens, {EncodeRune(r) : r \in both})
                 = [k \in 1..Len(Restrict(runes, both)) |->
                        EncodeRune(Restrict(runes, both)[k])]

\* C11 witness: a text holding a character of both sets between two words,
\* tokenized without PreserveWhitespace
C11_Witness ==
    /\ pc = "Tokenize"
    /\ ~opts.PreserveWhitespace
    /\ Len(tokens) = 3
    /\ \E r \in Range(runeSeqFrom(text, 0)) :
          InBothSets(opts, r) /\ tokens[2] = EncodeRune(r)

\* ------------------------------------------------------------------
\* linediff.go: pairing the deleted and inserted lines of a changed block
\* ------------------------------------------------------------------
\* A float64 score is a ratio <<numerator, denominator>> in lowest terms;
\* the ratios of the model are exact in float64 and compare as the floats do.
RECURSIVE GCD(_, _)
GCD(a, b) == IF b = 0 THEN a ELSE GCD(b, a % b)

Ratio(n, d) == IF n = 0 THEN <<0, 1>> ELSE <<n \div GCD(n, d), d \div GCD(n, d)>>

RatioGT(a, b) == a[1] * b[2] > b[1] * a[2]

\* tokendiff.go:95-100
DefaultOptions ==
    [UsePunctuation |-> FALSE, Delimiters |-> DefaultDelimiters,
     Whitespace |-> <<>>, PreserveWhitespace |-> FALSE]

countEqual(ds) == Cardinality({k \in 1..Len(ds) : ds[k].Type = Equal})

\* postprocess.go ComputeTokenSimilarity: the scores it may return for two
\* lines, one for each diff of their tokens the matcher allows
ComputeTokenSimilarity(text1, text2, o) ==
    IF text1 = text2 THEN {<<1, 1>>}
    ELSE IF text1 = <<>> \/ text2 = <<>> THEN {<<0, 1>>}
    ELSE LET t1 == Tokenize(text1, o)
             t2 == Tokenize(text2, o)
         IN IF Len(t1) = 0 \/ Len(t2) = 0 THEN {<<0, 1>>}
            ELSE {IF Len(d) = 0 THEN <<0, 1>> ELSE Ratio(countEqual(d), Len(d)) :
                     d \in DiffTokens(t1, t2)}

\* linediff.go:6-10
LinePairing(deleteIndex, insertIndex, similarity) ==
    [DeleteIndex |-> deleteIndex, InsertIndex |-> insertIndex,
     Similarity |-> similarity]

\* linediff.go:15-30
FindPositionalPairings(dels, ins) ==
    [k \in 1..Min(Len(dels), Len(ins)) |-> LinePairing(k - 1, k - 1, <<1, 1>>)]

betterScoreOrEqualBug(sim, bestSim) == ~RatioGT(bestSim, sim)

\* linediff.go:46: sim > bestSim
betterScore(sim, bestSim) == RatioGT(sim, bestSim)

\* linediff.go:41-49: the inner loop from insert j on; sim is the score table
RECURSIVE bestInsertFrom(_, _, _, _, _, _, _)
bestInsertFrom(del, ins, usedInserts, sim, j, bestJ, bestSim) ==
    IF j >= Len(ins) THEN <<bestJ, bestSim>>
    ELSE IF At(usedInserts, j)
    THEN bestInsertFrom(del, ins, usedInserts, sim, j + 1, bestJ, bestSim)
    ELSE IF betterScore(sim[<<del, At(ins, j)>>], bestSim)
    THEN bestInsertFrom(del, ins, usedInserts, sim, j + 1,
                        j, sim[<<del, At(ins, j)>>])
    ELSE bestInsertFrom(del, ins, usedInserts, sim, j + 1, bestJ, bestSim)

\* linediff.go:39-58: the outer loop from delete i on
RECURSIVE pairFrom(_, _, _, _, _, _, _)
pairFrom(dels, ins, sim, thr, i, usedInserts, prs) ==
    IF i >= Len(dels) THEN prs
    ELSE LET best == bestInsertFrom(At(dels, i), ins, usedInserts, sim, 0, -1, thr)
         IN IF best[1] >= 0
            THEN pairFrom(dels, ins, sim, thr, i + 1,
                          [usedInserts EXCEPT ![best[1] + 1] = TRUE],
                          Append(prs, LinePairing(i, best[1], best[2])))
            ELSE pairFrom(dels, ins, sim, thr, i + 1, usedInserts, prs)

FindSimilarityPairingsClampBug(dels, ins, sim, thr) ==
    pairFrom(dels, ins, sim,
             IF RatioGT(<<0, 1>>, thr) THEN <<0, 1>>
             ELSE IF RatioGT(thr, <<1, 1>>) THEN <<1, 1>> ELSE thr,
             0, [k \in 1..Len(ins) |-> FALSE], <<>>)

\* linediff.go:35-60; sim[<<del, ins>>] is ComputeTokenSimilarity(del, ins, opts)
FindSimilarityPairings(dels, ins, sim, thr) ==
    pairFrom(dels, ins, sim, thr, 0, [k \in 1..Len(ins) |-> FALSE], <<>>)

\* ------------------------------------------------------------------
\* Specification of the similarity pairing
\* ------------------------------------------------------------------
MaxBlockLines == 3

\* the lines "a" and "a b"
LineTexts == {<<97>>, <<97, 32, 98>>}

Thresholds == {<<0, 1>>, <<1, 2>>}

\* thresholds at and beyond the ends of [0, 1]: 1, 2 and -1
EdgeThresholds == {<<1, 1>>, <<2, 1>>, <<-1, 1>>}

\* the score tables ComputeTokenSimilarity can realise on LineTexts
SimTables ==
    LET pairs == LineTexts \X LineTexts
        sims == [p \in pairs |-> ComputeTokenSimilarity(p[1], p[2], DefaultOptions)]
        scores == UNION {sims[p] : p \in pairs}
    IN {f \in [pairs -> scores] : \A p \in pairs : f[p] \in sims[p]}

InitPair ==
    /\ pc = "start"
    /\ simOf \in SimTables
    /\ simThreshold \in Thresholds \cup EdgeThresholds
    /\ blockDeletes \in SeqsUpTo(LineTexts, MaxBlockLines)
    /\ blockInserts \in SeqsUpTo(LineTexts, MaxBlockLines)
    /\ opts = DefaultOptions
    /\ pairings = <<>>
    /\ lines1 = <<>> /\ lines2 = <<>> /\ lineDiffs = <<>> /\ algorithm = "best"
    /\ results = <<>> /\ blocks = <<>> /\ statistics = ZeroStatistics
    /\ CtxIdle /\ UnifiedIdle /\ LoopIdle
    /\ tokens1 = <<>> /\ tokens2 = <<>>
    /\ many = 0 /\ marked1 = <<>> /\ marked2 = <<>>
    /\ discard1 = <<>> /\ discard2 = <<>>
    /\ filtered1 = <<>> /\ filtered2 = <<>> /\ map1 = <<>> /\ map2 = <<>>
    /\ diffs = <<>> /\ minContext = 0 /\ out = <<>>
    /\ lower1 = <<>> /\ lower2 = <<>> /\ filteredDiffs = <<>>
    /\ text = <<>> /\ tokens = <<>> /\ positions = <<>>

DoFindSimilarityPairings ==
    /\ pc = "start"
    /\ pairings' = FindSimilarityPairings(blockDeletes, blockInserts, simOf, simThreshold)
    /\ pc' = "paired"
    /\ UNCHANGED <<lines1, lines2, lineDiffs, algorithm, simThreshold, simOf,
                   blockDeletes, blockInserts, results, blocks, statistics>>
    /\ UNCHANGED <<tokens1, tokens2, out, filterVars, postVars, caseVars, tokVars,
                   ctxVars, unifiedVars, loopVars>>

NextPair == DoFindSimilarityPairings

SpecPair == InitPair /\ [][NextPair]_vars

\* ------------------------------------------------------------------
\* Claims about the similarity pairing
\* ------------------------------------------------------------------
\* the insert indices taken by the pairings of deleted lines before line i
UsedBefore(prs, i) ==
    {prs[k].InsertIndex : k \in {k \in 1..Len(prs) : prs[k].DeleteIndex < i}}

\* the pairing of deleted line i is a best choice among the unused inserts
GreedyChoiceOk(prs, dels, ins, sim, thr, i) ==
    LET avail == (0..(Len(ins) - 1)) \ UsedBefore(prs, i)
        mine == {k \in 1..Len(prs) : prs[k].DeleteIndex = i}
    IN IF mine = {}
       THEN \A j \in avail : ~RatioGT(sim[<<At(dels, i), At(ins, j)>>], thr)
       ELSE \A k \in mine :
              /\ prs[k].InsertIndex \in avail
              /\ prs[k].Similarity = sim[<<At(dels, i), At(ins, prs[k].InsertIndex)>>]
              /\ \A j \in avail :
                    ~RatioGT(sim[<<At(dels, i), At(ins, j)>>], prs[k].Similarity)

\* C12: FindSimilarityPairings returns a partial injective matching (no
\* delete index and no insert index in two pairings), every recorded
\* similarity is strictly greater than the threshold, and each deleted line,
\* in order, is paired with a highest-scoring inserted line among those not
\* yet used, or left unpaired when none of them scores above the threshold.
C12_GreedyInjectivePairing ==
    pc = "paired" =>
        /\ \A p, q \in 1..Len(pairings) :
              p # q => /\ pairings[p].DeleteIndex # pairings[q].DeleteIndex
                       /\ pairings[p].InsertIndex # pairings[q].InsertIndex
        /\ \A p \in 1..Len(pairings) :
              /\ pairings[p].DeleteIndex \in 0..(Len(blockDeletes) - 1)
              /\ pairings[p].InsertIndex \in 0..(Len(blockInserts) - 1)
              /\ RatioGT(pairings[p].Similarity, simThreshold)
        /\ \A i \in 0..(Len(blockDeletes) - 1) :
              GreedyChoiceOk(pairings, blockDeletes, blockInserts, simOf, simThreshold, i)

\* C12 witness: two pairings, the second deleted line settling for a lower
\* score because its best inserted line is already used, and a third deleted
\* line left unpaired although an inserted line equals it
C12_Witness ==
    /\ pc = "paired"
    /\ Len(blockDeletes) = 3
    /\ Len(pairings) = 2
    /\ pairings[2].DeleteIndex = 1
    /\ \E j \in UsedBefore(pairings, 1) :
          RatioGT(simOf[<<At(blockDeletes, 1), At(blockInserts, j)>>], pairings[2].Similarity)
    /\ \E j \in 0..(Len(blockInserts) - 1) : At(blockInserts, j) = At(blockDeletes, 2)

\* ------------------------------------------------------------------
\* linediff.go: DiffLineByLine
\* ------------------------------------------------------------------
\* linediff.go:63-68. Output, the formatted text, is kept as the line-level
\* ops handed to the formatter: the line itself for an unchanged line, one
\* Insert or one Delete for a pure insertion or deletion, and the old and
\* the new line of a paired result.
LineDiffResult(oldLineNum, newLineNum, hasChanges, output) ==
    [OldLineNum |-> oldLineNum, NewLineNum |-> newLineNum,
     HasChanges |-> hasChanges, Output |-> output]

\* linediff.go:145-155: the lines of the run of ops of type tokenType from i
collectLines(lds, i, tokenType) ==
    [j \in 1..(runEndOfType(lds, i, tokenType) - i) |-> At(lds, i + j - 1).Token]

\* linediff.go:170-175: pairedDeletes[delIdx], -1 when delIdx is no key
RECURSIVE pairedDeletesFrom(_, _, _, _)
pairedDeletesFrom(prs, delIdx, k, found) ==
    IF k > Len(prs) THEN found
    ELSE pairedDeletesFrom(prs, delIdx, k + 1,
             IF prs[k].DeleteIndex = delIdx THEN prs[k].InsertIndex ELSE found)

pairedDeletes(prs, delIdx) == pairedDeletesFrom(prs, delIdx, 1, -1)

\* linediff.go:170-175, 186: j is a key of pairedInserts
isPairedInsert(prs, j) == \E k \in 1..Len(prs) : prs[k].InsertIndex = j

\* The state of the loops: results, oldLineNum, newLineNum, outputInserts,
\* totalStats, and emitted, which records for each result of the current
\* block the delete index and the insert index it renders (-1 for none).

countOfType(ds, ty) == Cardinality({k \in 1..Len(ds) : ds[k].Type = ty})

\* tokendiff.go:247-267
ComputeStatistics(text1, text2, ds, o) ==
    [OldWords |-> Len(Tokenize(text1, o)),
     NewWords |-> Len(Tokenize(text2, o)),
     DeletedWords |-> countOfType(ds, Delete),
     InsertedWords |-> countOfType(ds, Insert),
     CommonWords |-> countOfType(ds, Equal)]

\* tokendiff.go:306-331 with IgnoreCase unset: Diffs is DiffTokens of the two
\* lines' tokens. ComputeTokenSimilarity scored the same call (postprocess.go
\* line 684), so for two different lines the diff is one that has the
\* score sim records for them.
wordDiffs(oldLine, newLine, sim, o) ==
    LET t1 == Tokenize(oldLine, o)
        t2 == Tokenize(newLine, o)
    IN IF oldLine = newLine \/ Len(t1) = 0 \/ Len(t2) = 0
       THEN CHOOSE d \in DiffTokens(t1, t2) : TRUE
       ELSE CHOOSE d \in DiffTokens(t1, t2) :
                Ratio(countEqual(d), Len(d)) = sim[<<oldLine, newLine>>]

\* linediff.go:190-192, 256-258, 275-277: totalStats after a pure insertion
addInsertStats(total, line, o) ==
    LET lineSt == ComputeStatistics(<<>>, line, <<Diff(Insert, line)>>, o)
    IN [total EXCEPT !.NewWords = @ + lineSt.NewWords,
                     !.InsertedWords = @ + lineSt.InsertedWords]

\* linediff.go:234-236: totalStats after a pure deletion
addDeleteStats(total, line, o) ==
    LET lineSt == ComputeStatistics(line, <<>>, <<Diff(Delete, line)>>, o)
    IN [total EXCEPT !.OldWords = @ + lineSt.OldWords,
                     !.DeletedWords = @ + lineSt.DeletedWords]

\* linediff.go:212-219: totalStats after a paired line
addPairStats(total, oldLine, newLine, sim, o) ==
    LET lineSt == ComputeStatistics(oldLine, newLine,
                                    wordDiffs(oldLine, newLine, sim, o), o)
    IN [OldWords |-> total.OldWords + lineSt.OldWords,
        NewWords |-> total.NewWords + lineSt.NewWords,
        DeletedWords |-> total.DeletedWords + lineSt.DeletedWords,
        InsertedWords |-> total.InsertedWords + lineSt.InsertedWords,
        CommonWords |-> total.CommonWords + lineSt.CommonWords]

\* linediff.go:187-202 and 253-266: a pure-insertion result for inserts[j]
emitInsert(st, ins, j) ==
    [st EXCEPT !.results = Append(@, LineDiffResult(st.oldLineNum, st.newLineNum,
                                      TRUE, <<Diff(Insert, At(ins, j))>>)),
               !.newLineNum = @ + 1,
               !.totalStats = addInsertStats(@, At(ins, j), DefaultOptions),
               !.emitted = Append(@, <<-1, j>>)]

emitDeleteNoAdvanceBug(st, dels, delIdx) ==
    [st EXCEPT !.results = Append(@, LineDiffResult(st.oldLineNum, st.newLineNum,
                                      TRUE, <<Diff(Delete, At(dels, delIdx))>>)),
               !.emitted = Append(@, <<delIdx, -1>>)]

\* linediff.go:232-246: a pure-deletion result for deletes[delIdx]
emitDelete(st, dels, delIdx) ==
    [st EXCEPT !.results = Append(@, LineDiffResult(st.oldLineNum, st.newLineNum,
                                      TRUE, <<Diff(Delete, At(dels, delIdx))>>)),
               !.oldLineNum = @ + 1,
               !.totalStats = addDeleteStats(@, At(dels, delIdx), DefaultOptions),
               !.emitted = Append(@, <<delIdx, -1>>)]

\* linediff.go:207-230: the result of the pair deletes[delIdx], inserts[insIdx]
emitPair(st, dels, ins, delIdx, insIdx, sim) ==
    [st EXCEPT !.results = Append(@, LineDiffResult(st.oldLineNum, st.newLineNum,
                                      TRUE, <<Diff(Delete, At(dels, delIdx)),
                                              Diff(Insert, At(ins, insIdx))>>)),
               !.outputInserts = [@ EXCEPT ![insIdx + 1] = TRUE],
               !.oldLineNum = @ + 1,
               !.newLineNum = @ + 1,
               !.totalStats = addPairStats(@, At(dels, delIdx), At(ins, insIdx),
                                           sim, DefaultOptions),
               !.emitted = Append(@, <<delIdx, insIdx>>)]

flushUnpairedBeforeNoneBug(st, ins, prs, j, insIdx) == st

\* linediff.go:184-205: output the unpaired inserts before insIdx, from j on
RECURSIVE flushUnpairedBefore(_, _, _, _, _)
flushUnpairedBefore(st, ins, prs, j, insIdx) ==
    IF j >= insIdx THEN st
    ELSE IF ~At(st.outputInserts, j) /\ ~isPairedInsert(prs, j)
    THEN flushUnpairedBefore(
             emitInsert([st EXCEPT !.outputInserts = [@ EXCEPT ![j + 1] = TRUE]], ins, j),
             ins, prs, j + 1, insIdx)
    ELSE flushUnpairedBefore(st, ins, prs, j + 1, insIdx)

\* linediff.go:181-248: the loop over the deleted lines, from delIdx on
RECURSIVE deleteLoop(_, _, _, _, _, _)
deleteLoop(st, dels, ins, prs, delIdx, sim) ==
    IF delIdx >= Len(dels) THEN st
    ELSE LET insIdx == pairedDeletes(prs, delIdx) IN
         IF insIdx >= 0
         THEN deleteLoop(emitPair(flushUnpairedBefore(st, ins, prs, 0, insIdx),
                                  dels, ins, delIdx, insIdx, sim),
                         dels, ins, prs, delIdx + 1, sim)
         ELSE deleteLoop(emitDelete(st, dels, delIdx), dels, ins, prs, delIdx + 1, sim)

\* linediff.go:251-268: the inserts not output yet, from j on
RECURSIVE remainingInserts(_, _, _)
remainingInserts(st, ins, j) ==
    IF j >= Len(ins) THEN st
    ELSE IF ~At(st.outputInserts, j)
    THEN remainingInserts(emitInsert(st, ins, j), ins, j + 1)
    ELSE remainingInserts(st, ins, j + 1)

\* linediff.go:142-268: one changed block starting at op i
changedBlock(st, lds, i, alg, sim, thr) ==
    LET dels == collectLines(lds, i, Delete)
        ins == collectLines(lds, i + Len(dels), Insert)
        prs == IF alg = "best" THEN FindSimilarityPairings(dels, ins, sim, thr)
               ELSE FindPositionalPairings(dels, ins)
        start == [st EXCEPT !.outputInserts = [k \in 1..Len(ins) |-> FALSE],
                            !.emitted = <<>>]
        done == remainingInserts(deleteLoop(start, dels, ins, prs, 0, sim), ins, 0)
    IN [done EXCEPT !.blocks = Append(@, [Deletes |-> dels, Inserts |-> ins,
                                          Pairings |-> prs,
                                          First |-> Len(st.results),
                                          Emitted |-> done.emitted])]

\* linediff.go:127-290: the loop over lineDiffs from op i on
RECURSIVE lineLoop(_, _, _, _, _, _)
lineLoop(st, lds, i, alg, sim, thr) ==
    IF i >= Len(lds) THEN st
    ELSE IF At(lds, i).Type = Equal
    THEN lineLoop([st EXCEPT !.results = Append(@, LineDiffResult(st.oldLineNum,
                                 st.newLineNum, FALSE, <<At(lds, i)>>)),
                             !.oldLineNum = @ + 1,
                             !.newLineNum = @ + 1],
                  lds, i + 1, alg, sim, thr)
    ELSE IF At(lds, i).Type = Delete
    THEN LET b == changedBlock(st, lds, i, alg, sim, thr)
             n == runEndOfType(lds, runEndOfType(lds, i, Delete), Insert)
         IN lineLoop(b, lds, n, alg, sim, thr)
    ELSE lineLoop([st EXCEPT !.results = Append(@, LineDiffResult(st.oldLineNum,
                                 st.newLineNum, TRUE, <<At(lds, i)>>)),
                             !.totalStats = addInsertStats(@, At(lds, i).Token,
                                                           DefaultOptions),
                             !.newLineNum = @ + 1],
                  lds, i + 1, alg, sim, thr)

\* linediff.go:109-297, given the line-level diff DiffTokens returned
DiffLineByLine(lds, alg, sim, thr) ==
    LET st == lineLoop([results |-> <<>>, oldLineNum |-> 1, newLineNum |-> 1,
                        outputInserts |-> <<>>, emitted |-> <<>>, blocks |-> <<>>,
                        totalStats |-> ZeroStatistics],
                       lds, 0, alg, sim, thr)
    IN [Lines |-> st.results, Blocks |-> st.blocks, Statistics |-> st.totalStats]

\* ------------------------------------------------------------------
\* Specification of the line-by-line diff
\* ------------------------------------------------------------------
MaxLineDiffs == 4

LineOps == {Diff(ty, l) : ty \in {Equal, Insert, Delete}, l \in LineTexts}

\* strings.Split gives at least one line per text. lineDiffs is a diff of
\* the two line sequences the matcher allows: every op sequence is an
\* alignment of its own old and new lines, and identical line sequences
\* get a single Equal run.
ValidLineDiff(d) ==
    /\ Len(OldTokens(d)) >= 1 /\ Len(NewTokens(d)) >= 1
    /\ OldTokens(d) = NewTokens(d) => \A k \in 1..Len(d) : d[k].Type = Equal

\* the pairing modes with the threshold and the scores they run under;
\* positional pairing reads no threshold, so it gets one
PairingModes ==
    {<<"best", thr, sim>> : thr \in Thresholds, sim \in SimTables}
    \cup {<<"normal", <<1, 2>>, sim>> : sim \in SimTables}

InitLine ==
    /\ pc = "start"
    /\ \E m \in PairingModes :
          /\ algorithm = m[1]
          /\ simThreshold = m[2]
          /\ simOf = m[3]
    /\ lineDiffs \in SeqsUpTo(LineOps, MaxLineDiffs)
    /\ ValidLineDiff(lineDiffs)
    /\ lines1 = OldTokens(lineDiffs)
    /\ lines2 = NewTokens(lineDiffs)
    /\ opts = DefaultOptions
    /\ blockDeletes = <<>> /\ blockInserts = <<>> /\ pairings = <<>>
    /\ results = <<>> /\ blocks = <<>> /\ statistics = ZeroStatistics
    /\ CtxIdle /\ UnifiedIdle /\ LoopIdle
    /\ tokens1 = <<>> /\ tokens2 = <<>>
    /\ many = 0 /\ marked1 = <<>> /\ marked2 = <<>>
    /\ discard1 = <<>> /\ discard2 = <<>>
    /\ filtered1 = <<>> /\ filtered2 = <<>> /\ map1 = <<>> /\ map2 = <<>>
    /\ diffs = <<>> /\ minContext = 0 /\ out = <<>>
    /\ lower1 = <<>> /\ lower2 = <<>> /\ filteredDiffs = <<>>
    /\ text = <<>> /\ tokens = <<>> /\ positions = <<>>

DoDiffLineByLine ==
    /\ pc = "start"
    /\ \E r \in {DiffLineByLine(lineDiffs, algorithm, simOf, simThreshold)} :
          /\ results' = r.Lines
          /\ blocks' = r.Blocks
          /\ statistics' = r.Statistics
    /\ pc' = "lineDiffed"
    /\ UNCHANGED <<lines1, lines2, lineDiffs, algorithm, simThreshold, simOf,
                   blockDeletes, blockInserts, pairings>>
    /\ UNCHANGED <<tokens1, tokens2, out, filterVars, postVars, caseVars, tokVars,
                   ctxVars, unifiedVars, loopVars>>

NextLine == DoDiffLineByLine

SpecLine == InitLine /\ [][NextLine]_vars

\* ------------------------------------------------------------------
\* Claims about the line-by-line diff
\* ------------------------------------------------------------------
IsPureInsertion(r) == Len(r.Output) = 1 /\ r.Output[1].Type = Insert

IsPureDeletion(r) == Len(r.Output) = 1 /\ r.Output[1].Type = Delete

\* C13: in the results of DiffLineByLine a pure-insertion line has its old
\* line number unset (0) and a pure-deletion line has its new line number
\* unset (0).
C13_UnsetLineNumbers ==
    pc = "lineDiffed" =>
        \A k \in 1..Len(results) :
            /\ IsPureInsertion(results[k]) => results[k].OldLineNum = 0
            /\ IsPureDeletion(results[k]) => results[k].NewLineNum = 0

CarriesOld(r) == \E k \in 1..Len(r.Output) : r.Output[k].Type \in {Equal, Delete}

CarriesNew(r) == \E k \in 1..Len(r.Output) : r.Output[k].Type \in {Equal, Insert}

\* the old (new) line numbers of the results that carry an old (new) line
RECURSIVE OldNumbers(_)
OldNumbers(rs) ==
    IF rs = <<>> THEN <<>>
    ELSE (IF CarriesOld(Head(rs)) THEN <<Head(rs).OldLineNum>> ELSE <<>>)
         \o OldNumbers(Tail(rs))

RECURSIVE NewNumbers(_)
NewNumbers(rs) ==
    IF rs = <<>> THEN <<>>
    ELSE (IF CarriesNew(Head(rs)) THEN <<Head(rs).NewLineNum>> ELSE <<>>)
         \o NewNumbers(Tail(rs))

\* C14: the old line numbers of the results that carry an old line
\* (unchanged, paired or deleted) are, in output order, exactly
\* 1, 2, ..., number of old lines; likewise the new line numbers of the
\* results that carry a new line are 1, 2, ..., number of new lines.
C14_LineNumbersCount ==
    pc = "lineDiffed" =>
        /\ OldNumbers(results) = [k \in 1..Len(lines1) |-> k]
        /\ NewNumbers(results) = [k \in 1..Len(lines2) |-> k]

\* C14 witness: a block rendered as a pure insertion, a pairing and a pure
\* deletion, in this order
C14_Witness ==
    /\ pc = "lineDiffed"
    /\ Len(results) = 3
    /\ IsPureInsertion(results[1])
    /\ Len(results[2].Output) = 2
    /\ IsPureDeletion(results[3])

\* the positions of b.Emitted whose entry satisfies a test on <<del, ins>>
UnpairedInsertPositions(b) ==
    {p \in 1..Len(b.Emitted) : b.Emitted[p][1] = -1}

DeletePositions(b) ==
    {p \in 1..Len(b.Emitted) : b.Emitted[p][1] # -1}

\* result First + p of the block renders the lines Emitted[p] names
RendersEmitted(rs, b, p) ==
    LET e == b.Emitted[p]
        r == rs[b.First + p]
    IN /\ e[1] # -1 => r.Output[1] = Diff(Delete, At(b.Deletes, e[1]))
       /\ e[2] # -1 => r.Output[Len(r.Output)] = Diff(Insert, At(b.Inserts, e[2]))
       /\ Len(r.Output) = (IF e[1] # -1 THEN 1 ELSE 0) + (IF e[2] # -1 THEN 1 ELSE 0)

BlockOrderOk(rs, b) ==
    /\ \A p \in 1..Len(b.Emitted) : RendersEmitted(rs, b, p)
    \* every deleted line in exactly one result, in the original order
    /\ \A d \in 0..(Len(b.Deletes) - 1) :
          Cardinality({p \in DeletePositions(b) : b.Emitted[p][1] = d}) = 1
    /\ \A p, q \in DeletePositions(b) :
          p < q => b.Emitted[p][1] < b.Emitted[q][1]
    \* every inserted line in exactly one result
    /\ \A j \in 0..(Len(b.Inserts) - 1) :
          Cardinality({p \in 1..Len(b.Emitted) : b.Emitted[p][2] = j}) = 1
    \* unpaired inserted lines in their original relative order
    /\ \A p, q \in UnpairedInsertPositions(b) :
          p < q => b.Emitted[p][2] < b.Emitted[q][2]
    \* an unpaired inserted line before every pairing of a larger insert index
    /\ \A p \in UnpairedInsertPositions(b) :
          \A q \in 1..Len(b.Emitted) :
             (b.Emitted[q][1] # -1 /\ b.Emitted[q][2] > b.Emitted[p][2]) => p < q

\* C15: within one changed block every deleted line and every inserted line
\* is rendered in exactly one result, deleted lines in their original
\* order, unpaired inserted lines in their original relative order, and
\* every unpaired inserted line whose index is smaller than the insert index
\* of a pairing before that pairing's result.
C15_BlockOrder ==
    pc = "lineDiffed" =>
        \A k \in 1..Len(blocks) : BlockOrderOk(results, blocks[k])

\* C15 witness: a block whose first deleted line is paired with the second
\* inserted line, the first inserted line being unpaired and flushed first
C15_Witness ==
    /\ pc = "lineDiffed"
    /\ \E k \in 1..Len(blocks) :
          /\ Len(blocks[k].Emitted) >= 3
          /\ blocks[k].Emitted[1] = <<-1, 0>>
          /\ blocks[k].Emitted[2] = <<0, 1>>

\* ------------------------------------------------------------------
\* Claims about the shape of the post-processing passes' output
\* ------------------------------------------------------------------
\* the length of the longest common prefix of a and b
LongestCommonPrefix(a, b) ==
    CHOOSE k \in 0..Min(Len(a), Len(b)) :
        /\ \A j \in 1..k : a[j] = b[j]
        /\ k = Min(Len(a), Len(b)) \/ a[k + 1] # b[k + 1]

\* the length of the longest common suffix of a and b
LongestCommonSuffix(a, b) ==
    CHOOSE k \in 0..Min(Len(a), Len(b)) :
        /\ \A j \in 0..(k - 1) : a[Len(a) - j] = b[Len(b) - j]
        /\ k = Min(Len(a), Len(b)) \/ a[Len(a) - k] # b[Len(b) - k]

AsDiffs(toks, type) == [k \in 1..Len(toks) |-> Diff(type, toks[k])]

\* the 1-based end of the run of ops of type `type` that starts at op k
RECURSIVE RunEnd(_, _, _)
RunEnd(ds, k, type) ==
    IF k <= Len(ds) /\ ds[k].Type = type THEN RunEnd(ds, k + 1, type) ELSE k - 1

\* ds holds a Delete, and splits at its first Delete into pre, the maximal
\* Delete run, the maximal Insert run after it, and post
FirstDelete(ds) == CHOOSE k \in 1..Len(ds) :
    ds[k].Type = Delete /\ \A j \in 1..(k - 1) : ds[j].Type # Delete

BlockSplit(ds) ==
    LET d == FirstDelete(ds)
        de == RunEnd(ds, d, Delete)
        ie == RunEnd(ds, de + 1, Insert)
    IN [pre |-> SubSeq(ds, 1, d - 1),
        dels |-> [k \in 1..(de - d + 1) |-> ds[d + k - 1].Token],
        ins |-> [k \in 1..(ie - de) |-> ds[de + k].Token],
        post |-> SubSeq(ds, ie + 1, Len(ds))]

\* ds has one Delete run, and the op before it is not an Equal of the run's
\* first token (so no backward shift applies to the run)
OneBlock(ds) ==
    /\ \E k \in 1..Len(ds) : ds[k].Type = Delete
    /\ LET b == BlockSplit(ds) IN
          /\ \A k \in 1..Len(b.post) : b.post[k].Type # Delete
          /\ b.pre # <<>> =>
                ~(b.pre[Len(b.pre)].Type = Equal
                    /\ b.pre[Len(b.pre)].Token = b.dels[1])

\* the block re-emitted: common prefix as Equal, the remaining Delete and
\* Insert ops, then the common suffix of the remainder as Equal
ShiftedBlock(dels, ins) ==
    LET p == LongestCommonPrefix(dels, ins)
        d1 == SubSeq(dels, p + 1, Len(dels))
        i1 == SubSeq(ins, p + 1, Len(ins))
        q == LongestCommonSuffix(d1, i1)
    IN AsDiffs(SubSeq(dels, 1, p), Equal)
       \o AsDiffs(SubSeq(d1, 1, Len(d1) - q), Delete)
       \o AsDiffs(SubSeq(i1, 1, Len(i1) - q), Insert)
       \o AsDiffs(SubSeq(d1, Len(d1) - q + 1, Len(d1)), Equal)

RECURSIVE RunStart(_, _, _)
RunStart(ds, k, type) ==
    IF k >= 1 /\ ds[k].Type = type THEN RunStart(ds, k - 1, type) ELSE k + 1

\* op k of ds is in a maximal Equal run with a Delete or Insert op
\* immediately on both sides
Sandwiched(ds, k) ==
    LET s == RunStart(ds, k, Equal)
        e == RunEnd(ds, k, Equal)
    IN /\ ds[k].Type = Equal
       /\ s > 1 /\ ds[s - 1].Type \in {Delete, Insert}
       /\ e < Len(ds) /\ ds[e + 1].Type \in {Delete, Insert}

EqualRunLength(ds, k) == RunEnd(ds, k, Equal) - RunStart(ds, k, Equal) + 1

\* ds with each op for which convert[k] holds replaced by repl[k]
RECURSIVE ReplaceOps(_, _, _, _)
ReplaceOps(ds, convert, repl, k) ==
    IF k > Len(ds) THEN <<>>
    ELSE (IF convert[k] THEN repl[k] ELSE <<ds[k]>>)
         \o ReplaceOps(ds, convert, repl, k + 1)

\* C17: ApplyMatchContext returns its input when minContext <= 0; otherwise
\* it replaces each token of exactly the maximal Equal runs that have a
\* Delete or Insert op immediately on both sides and are shorter than
\* minContext by a Delete then an Insert of the token, and leaves every
\* other op unchanged and in place.
C17_MatchContextConvertsShortRuns ==
    pc = "ApplyMatchContext" =>
        IF minContext <= 0 THEN out = diffs
        ELSE out = ReplaceOps(diffs,
                      [k \in 1..Len(diffs) |->
                          Sandwiched(diffs, k)
                              /\ EqualRunLength(diffs, k) < minContext],
                      [k \in 1..Len(diffs) |->
                          <<Diff(Delete, diffs[k].Token),
                            Diff(Insert, diffs[k].Token)>>],
                      1)

\* C17 witness: with minContext 2, [Insert, Equal, Delete, Equal] has its
\* sandwiched Equal converted and its trailing Equal kept
C17_Witness ==
    /\ pc = "ApplyMatchContext"
    /\ minContext = 2
    /\ TypesOf(diffs) = <<Insert, Equal, Delete, Equal>>
    /\ TypesOf(out) = <<Insert, Delete, Insert, Delete, Equal>>

\* C18: EliminateStopwordAnchors replaces an Equal op by a Delete and an
\* Insert of its token exactly when the op is a single-token Equal run, its
\* token is a stopword and a Delete or Insert op is immediately on both
\* sides; the pair is Insert then Delete after an Insert and Delete then
\* Insert after a Delete. Multi-token Equal runs, non-stopword tokens and
\* all other ops are left as they are.
C18_StopwordAnchors ==
    pc = "EliminateStopwordAnchors" =>
        out = ReplaceOps(diffs,
                 [k \in 1..Len(diffs) |->
                     /\ Sandwiched(diffs, k)
                     /\ EqualRunLength(diffs, k) = 1
                     /\ diffs[k].Token \in stopwords],
                 [k \in 1..Len(diffs) |->
                     IF k > 1 /\ diffs[k - 1].Type = Insert
                     THEN <<Diff(Insert, diffs[k].Token), Diff(Delete, diffs[k].Token)>>
                     ELSE <<Diff(Delete, diffs[k].Token), Diff(Insert, diffs[k].Token)>>],
                 1)

\* C18 witness: a stopword between an Insert and a Delete becomes Insert,
\* Delete
C18_Witness ==
    /\ pc = "EliminateStopwordAnchors"
    /\ TypesOf(diffs) = <<Insert, Equal, Delete>>
    /\ diffs[2].Token \in stopwords
    /\ TypesOf(out) = <<Insert, Insert, Delete, Delete>>

\* The place InterleaveDiffs gives op k of ds. Delete j (counted from 0) of
\* a run that starts at op s and is followed by m Inserts goes to
\* s + j + min(j, m); Insert j of the run of Inserts after a run of n Deletes
\* that starts at op s goes to s + j + min(j + 1, n); every other op stays.
InterleavedPlace(ds, k) ==
    IF ds[k].Type = Delete
    THEN LET s == RunStart(ds, k, Delete)
             e == RunEnd(ds, k, Delete)
             m == RunEnd(ds, e + 1, Insert) - e
             j == k - s
         IN s + j + Min(j, m)
    ELSE IF ds[k].Type = Insert
    THEN LET is == RunStart(ds, k, Insert) IN
         IF is > 1 /\ ds[is - 1].Type = Delete
         THEN LET s == RunStart(ds, is - 1, Delete)
                  n == is - s
                  j == k - is
              IN s + j + Min(j + 1, n)
         ELSE k
    ELSE k

\* C19: InterleaveDiffs re-emits each maximal Delete run that is immediately
\* followed by a maximal Insert run as Delete[0], Insert[0], Delete[1],
\* Insert[1], ... with the excess of the longer side after the paired
\* prefix, and passes Equal ops and Insert runs not preceded by a Delete run
\* through unchanged.
C19_InterleavePairsRuns ==
    pc = "InterleaveDiffs" =>
        /\ Len(out) = Len(diffs)
        /\ \A k \in 1..Len(diffs) : out[InterleavedPlace(diffs, k)] = diffs[k]

\* C19 witness: three Deletes and one Insert come out as Delete, Insert,
\* Delete, Delete
C19_Witness ==
    /\ pc = "InterleaveDiffs"
    /\ TypesOf(diffs) = <<Delete, Delete, Delete, Insert>>
    /\ TypesOf(out) = <<Delete, Insert, Delete, Delete>>
    /\ diffs[1].Token # diffs[2].Token

\* ------------------------------------------------------------------
\* postprocess.go: AggregateDiffs (tokens are byte sequences)
\* ------------------------------------------------------------------
\* format.go:260-271: the first byte is none of )]}>,.:;!?"'([{</\
NeedsSpaceBefore(token) ==
    IF Len(token) = 0 THEN FALSE
    ELSE token[1] \notin {41, 93, 125, 62, 44, 46, 58, 59, 33, 63, 34, 39,
                          40, 91, 123, 60, 47, 92}

\* format.go:275-285: the last byte is none of ([{<"'/\.
NeedsSpaceAfter(token) ==
    IF Len(token) = 0 THEN FALSE
    ELSE token[Len(token)] \notin {40, 91, 123, 60, 34, 39, 47, 92, 46}

RECURSIVE joinTokensLeadingSpaceBug(_, _)
joinTokensLeadingSpaceBug(currentTokens, i) ==
    IF i >= Len(currentTokens) THEN <<>>
    ELSE <<32>> \o At(currentTokens, i)
         \o joinTokensLeadingSpaceBug(currentTokens, i + 1)

\* postprocess.go:408-418: the strings.Builder loop of flush, from token i on
RECURSIVE joinTokens(_, _)
joinTokens(currentTokens, i) ==
    IF i >= Len(currentTokens) THEN <<>>
    ELSE (IF i > 0 /\ NeedsSpaceAfter(At(currentTokens, i - 1))
                   /\ NeedsSpaceBefore(At(currentTokens, i))
          THEN <<32>> ELSE <<>>)
         \o At(currentTokens, i) \o joinTokens(currentTokens, i + 1)

\* postprocess.go:405-425: flush; st holds result, currentType, currentTokens
aggregateFlush(st) ==
    IF Len(st.currentTokens) > 0 /\ st.currentType >= 0
    THEN [st EXCEPT !.result = Append(@, Diff(st.currentType,
                                              joinTokens(st.currentTokens, 0))),
                    !.currentTokens = <<>>]
    ELSE st

\* postprocess.go:427-434: the loop over diffs from op k on, and the last flush
RECURSIVE aggregateFrom(_, _, _)
aggregateFrom(ds, k, st) ==
    IF k >= Len(ds) THEN aggregateFlush(st).result
    ELSE LET d == At(ds, k)
             f == IF d.Type # st.currentType
                  THEN [aggregateFlush(st) EXCEPT !.currentType = d.Type]
                  ELSE st
         IN aggregateFrom(ds, k + 1,
                [f EXCEPT !.currentTokens = Append(@, d.Token)])

\* postprocess.go:396-437
AggregateDiffs(ds) ==
    IF Len(ds) = 0 THEN ds
    ELSE aggregateFrom(ds, 0, [result |-> <<>>, currentType |-> -1,
                               currentTokens |-> <<>>])

\* ------------------------------------------------------------------
\* Specification of AggregateDiffs: once on every Diff sequence of at most
\* MaxAggLen ops, then once more on the result
\* ------------------------------------------------------------------
MaxAggLen == 3

\* the tokens "a", "(" and ""
AggTokens == {<<97>>, <<40>>, <<>>}

AggOps == {Diff(ty, tk) : ty \in {Equal, Insert, Delete}, tk \in AggTokens}

InitAgg ==
    /\ pc = "start"
    /\ diffs \in SeqsUpTo(AggOps, MaxAggLen)
    /\ tokens1 = <<>> /\ tokens2 = <<>>
    /\ many = 0 /\ marked1 = <<>> /\ marked2 = <<>>
    /\ discard1 = <<>> /\ discard2 = <<>>
    /\ filtered1 = <<>> /\ filtered2 = <<>> /\ map1 = <<>> /\ map2 = <<>>
    /\ minContext = 0 /\ out = <<>>
    /\ lower1 = <<>> /\ lower2 = <<>> /\ filteredDiffs = <<>>
    /\ text = <<>> /\ opts = <<>> /\ tokens = <<>> /\ positions = <<>>
    /\ LineIdle

\* AggregateDiffs(diffs)
DoAggregateDiffs ==
    /\ pc = "start"
    /\ out' = AggregateDiffs(diffs)
    /\ pc' = "aggregated"
    /\ UNCHANGED <<tokens1, tokens2, diffs, minContext>>
    /\ UNCHANGED <<filterVars, caseVars, tokVars, lineVars, ctxVars, unifiedVars, loopVars>>

\* AggregateDiffs on the result of the first call: diffs becomes that result
DoAggregateAgain ==
    /\ pc = "aggregated"
    /\ diffs' = out
    /\ out' = AggregateDiffs(out)
    /\ pc' = "aggregatedAgain"
    /\ UNCHANGED <<tokens1, tokens2, minContext>>
    /\ UNCHANGED <<filterVars, caseVars, tokVars, lineVars, ctxVars, unifiedVars, loopVars>>

NextAgg == DoAggregateDiffs \/ DoAggregateAgain

SpecAgg == InitAgg /\ [][NextAgg]_vars

\* C20: AggregateDiffs is idempotent: applied to its own result it returns
\* that result.
C20_AggregateIdempotent ==
    pc = "aggregatedAgain" => out = diffs

\* C20 witness: the first call merged tokens with a space between them, and
\* the second call has run on the merged result
C20_Witness ==
    /\ pc = "aggregatedAgain"
    /\ Len(diffs) = 2
    /\ \E k \in 1..2 : diffs[k].Token = <<97, 32, 97>>


\* ------------------------------------------------------------------
\* Claims about the statistics of the line-by-line diff
\* ------------------------------------------------------------------
\* the number of tokens of a text given as its lines
RECURSIVE TotalWords(_, _)
TotalWords(lines, o) ==
    IF lines = <<>> THEN 0
    ELSE Len(Tokenize(Head(lines), o)) + TotalWords(Tail(lines), o)

\* C21: the Statistics DiffLineByLine returns count every token of the old
\* text in OldWords and every token of the new text in NewWords, unchanged
\* lines included, so that OldWords = CommonWords + DeletedWords and
\* NewWords = CommonWords + InsertedWords.
C21_StatisticsTotals ==
    pc = "lineDiffed" =>
        /\ statistics.OldWords = TotalWords(lines1, opts)
        /\ statistics.NewWords = TotalWords(lines2, opts)
        /\ statistics.OldWords = statistics.CommonWords + statistics.DeletedWords
        /\ statistics.NewWords = statistics.CommonWords + statistics.InsertedWords


\* ------------------------------------------------------------------
\* diff_input.go: ProcessUnifiedDiff, and main's --diff-input branch
\* ------------------------------------------------------------------
HasPrefix(line, prefix) ==
    Len(line) >= Len(prefix) /\ SubSeq(line, 1, Len(prefix)) = prefix

\* diff_input.go:11-19; the prefixes "diff ", "index ", "new file",
\* "deleted file", "similarity", "rename", "Binary"
isGitExtendedHeader(line) ==
    \E prefix \in {<<100, 105, 102, 102, 32>>,
                   <<105, 110, 100, 101, 120, 32>>,
                   <<110, 101, 119, 32, 102, 105, 108, 101>>,
                   <<100, 101, 108, 101, 116, 101, 100, 32, 102, 105, 108, 101>>,
                   <<115, 105, 109, 105, 108, 97, 114, 105, 116, 121>>,
                   <<114, 101, 110, 97, 109, 101>>,
                   <<66, 105, 110, 97, 114, 121>>} : HasPrefix(line, prefix)

\* diff_input.go:22-24; "---" or "+++"
isDiffHeader(line) ==
    HasPrefix(line, <<45, 45, 45>>) \/ HasPrefix(line, <<43, 43, 43>>)

\* diff_input.go:27-29; "@@"
isHunkHeader(line) == HasPrefix(line, <<64, 64>>)

\* strings.Join(lines, "\n")
RECURSIVE joinLines(_)
joinLines(lines) ==
    IF lines = <<>> THEN <<>>
    ELSE IF Len(lines) = 1 THEN lines[1]
    ELSE lines[1] \o <<10>> \o joinLines(Tail(lines))

\* fmt.Fprintln(p.output, line)
writeLine(p, line) ==
    [p EXCEPT !.output = Append(@, [Kind |-> "line", Text |-> line])]

\* diff_input.go:42-55. What is written is DiffWholeFiles(oldText,
\* newText).Formatted, kept as the two texts that were diffed.
flushHunk(p) ==
    IF Len(p.oldLines) = 0 /\ Len(p.newLines) = 0 THEN p
    ELSE [p EXCEPT !.output = Append(@, [Kind |-> "diff",
                                         Text1 |-> joinLines(p.oldLines),
                                         Text2 |-> joinLines(p.newLines)]),
                   !.oldLines = <<>>,
                   !.newLines = <<>>]

\* diff_input.go:58-74
processHunkLine(p, line) ==
    IF HasPrefix(line, <<45>>) THEN [p EXCEPT !.oldLines = Append(@, Tail(line))]
    ELSE IF HasPrefix(line, <<43>>) THEN [p EXCEPT !.newLines = Append(@, Tail(line))]
    ELSE IF HasPrefix(line, <<32>>) THEN writeLine(flushHunk(p), Tail(line))
    ELSE writeLine(flushHunk(p), line)

\* diff_input.go:77-92
processLine(p, line) ==
    IF isDiffHeader(line) \/ isGitExtendedHeader(line)
    THEN writeLine([flushHunk(p) EXCEPT !.inHunk = FALSE], line)
    ELSE IF isHunkHeader(line)
    THEN writeLine([flushHunk(p) EXCEPT !.inHunk = TRUE], line)
    ELSE IF p.inHunk THEN processHunkLine(p, line)
    ELSE writeLine(p, line)

\* cmd/tokendiff/main.go:507-509
exitIdentical == 0
exitDiffer == 1
exitError == 2

\* ------------------------------------------------------------------
\* Specification of --diff-input: one step per scanned line, the final
\* flush, and main's exit
\* ------------------------------------------------------------------
MaxUdLines == 4

\* the lines "---", "@@", "-a", "+a", " a", "" and "diff "
UdLines == {<<45, 45, 45>>, <<64, 64>>, <<45, 97>>, <<43, 97>>, <<32, 97>>,
            <<>>, <<100, 105, 102, 102, 32>>}

processor ==
    [output |-> udOutput, oldLines |-> oldLines, newLines |-> newLines,
     inHunk |-> inHunk]

InitUnified ==
    /\ pc = "scanning"
    /\ udInput \in SeqsUpTo(UdLines, MaxUdLines)
    /\ udScanned = 0 /\ oldLines = <<>> /\ newLines = <<>>
    /\ inHunk = FALSE /\ udOutput = <<>> /\ exitCode = -1
    /\ tokens1 = <<>> /\ tokens2 = <<>>
    /\ many = 0 /\ marked1 = <<>> /\ marked2 = <<>>
    /\ discard1 = <<>> /\ discard2 = <<>>
    /\ filtered1 = <<>> /\ filtered2 = <<>> /\ map1 = <<>> /\ map2 = <<>>
    /\ diffs = <<>> /\ minContext = 0 /\ out = <<>>
    /\ lower1 = <<>> /\ lower2 = <<>> /\ filteredDiffs = <<>>
    /\ text = <<>> /\ opts = DefaultOptions /\ tokens = <<>> /\ positions = <<>>
    /\ lines1 = <<>> /\ lines2 = <<>> /\ lineDiffs = <<>>
    /\ algorithm = "" /\ simThreshold = <<0, 1>> /\ simOf = <<>>
    /\ blockDeletes = <<>> /\ blockInserts = <<>> /\ pairings = <<>>
    /\ results = <<>> /\ blocks = <<>> /\ statistics = ZeroStatistics
    /\ CtxIdle /\ LoopIdle

UnifiedFrame ==
    UNCHANGED <<tokens1, tokens2, out, filterVars, postVars, caseVars, tokVars,
                lineVars, ctxVars, loopVars>>

\* diff_input.go:101-103: scanner.Scan() yields a line, processLine handles it
ScanLine ==
    /\ pc = "scanning"
    /\ udScanned < Len(udInput)
    /\ \E p \in {processLine(processor, udInput[udScanned + 1])} :
          /\ udOutput' = p.output
          /\ oldLines' = p.oldLines
          /\ newLines' = p.newLines
          /\ inHunk' = p.inHunk
    /\ udScanned' = udScanned + 1
    /\ UNCHANGED <<pc, udInput, exitCode>>
    /\ UnifiedFrame

\* diff_input.go:105-106: the input is exhausted, the last flush, return nil
ReturnFromProcessUnifiedDiff ==
    /\ pc = "scanning"
    /\ udScanned = Len(udInput)
    /\ \E p \in {flushHunk(processor)} :
          /\ udOutput' = p.output
          /\ oldLines' = p.oldLines
          /\ newLines' = p.newLines
    /\ pc' = "returned"
    /\ UNCHANGED <<udInput, udScanned, inHunk, exitCode>>
    /\ UnifiedFrame

\* cmd/tokendiff/main.go:795-802: ProcessUnifiedDiff returned no error
ExitDiffInput ==
    /\ pc = "returned"
    /\ exitCode' = exitIdentical
    /\ pc' = "exited"
    /\ UNCHANGED <<udInput, udScanned, oldLines, newLines, inHunk, udOutput>>
    /\ UnifiedFrame

NextUnified == ScanLine \/ ReturnFromProcessUnifiedDiff \/ ExitDiffInput

SpecUnified == InitUnified /\ [][NextUnified]_vars

\* ------------------------------------------------------------------
\* Claims about --diff-input
\* ------------------------------------------------------------------
\* a change block was written
WroteChangeBlock == \E k \in 1..Len(udOutput) : udOutput[k].Kind = "diff"

\* C22: absent an error, the CLI exits with code 1 exactly when the diff it
\* computed reports changes, in --diff-input mode when a non-empty change
\* block was written, and with code 0 exactly when the inputs are
\* reported identical.
C22_ExitCodeReportsChanges ==
    pc = "exited" =>
        /\ exitCode = exitDiffer <=> WroteChangeBlock
        /\ exitCode = exitIdentical <=> ~WroteChangeBlock

\* C23: ProcessUnifiedDiff keeps headers and replaces hunk content: inside a
\* hunk, every line that begins with '-' adds its remainder to the old
\* lines of the pending word-level diff block, and every line that begins
\* with '+' adds its remainder to the new lines; nothing accumulated is
\* dropped or written twice.
C23_HunkLinesAccumulated ==
    [][(pc = "scanning" /\ udScanned < Len(udInput) /\ inHunk) =>
          LET line == udInput[udScanned + 1] IN
          /\ HasPrefix(line, <<45>>) =>
                /\ oldLines' = Append(oldLines, Tail(line))
                /\ udOutput' = udOutput
          /\ HasPrefix(line, <<43>>) =>
                /\ newLines' = Append(newLines, Tail(line))
                /\ udOutput' = udOutput]_vars


\* ------------------------------------------------------------------
\* Claims about thresholds outside [0, 1]
\* ------------------------------------------------------------------
\* C24: FindSimilarityPairings returns for every threshold, also outside
\* [0, 1]: with a threshold >= 1 it returns no pairings, and with a
\* threshold < 0 it pairs every deleted line for which an unused inserted
\* line remains, min(#deletes, #inserts) pairings on the first deleted lines.
C24_ThresholdOutsideUnitInterval ==
    pc = "paired" =>
        /\ ~RatioGT(<<1, 1>>, simThreshold) => pairings = <<>>
        /\ RatioGT(<<0, 1>>, simThreshold) =>
              /\ Len(pairings) = Min(Len(blockDeletes), Len(blockInserts))
              /\ \A k \in 1..Len(pairings) : pairings[k].DeleteIndex = k - 1
              /\ \A k, l \in 1..Len(pairings) :
                    k # l => pairings[k].InsertIndex # pairings[l].InsertIndex

\* C24 witness: under a negative threshold three deleted lines meet two
\* inserted lines, both get paired, one of them with a score of 0
C24_Witness ==
    /\ pc = "paired"
    /\ RatioGT(<<0, 1>>, simThreshold)
    /\ Len(blockDeletes) = 3 /\ Len(blockInserts) = 2
    /\ Len(pairings) = 2
    /\ \E k \in 1..2 : pairings[k].Similarity = <<0, 1>>


\* ------------------------------------------------------------------
\* Claims about the default delimiters
\* ------------------------------------------------------------------
\* C25: with DefaultOptions(), Tokenize emits each default delimiter
\* character as a token of its own: Tokenize("foo(bar, baz)",
\* DefaultOptions()) is ["foo", "(", "bar", ",", "baz", ")"].
C25_DefaultDelimiterTokens ==
    (pc = "Tokenize" /\ opts = DefaultOptions /\ text \in ReadmeTexts) =>
        tokens = <<<<102, 111, 111>>, <<40>>, <<98, 97, 114>>, <<44>>,
                   <<98, 97, 122>>, <<41>>>>


\* ------------------------------------------------------------------
\* linediff.go: FilterWithContext
\* ------------------------------------------------------------------
\* Go's int on a 32-bit build: the largest and the smallest value
MaxInt == 2147483647
MinInt == (-MaxInt) - 1

\* a + b on int, which wraps around silently
addInt(a, b) ==
    IF a > 0 /\ b > 0 /\ b > MaxInt - a THEN MinInt + ((a - (MaxInt - b)) - 1)
    ELSE IF a < 0 /\ b < 0 /\ b < MinInt - a THEN MaxInt - ((MinInt - b) - a - 1)
    ELSE a + b

\* linediff.go:318-320: toPrint[j] = true for start <= j < end
markRange(toPrint, start, end) ==
    [j \in 1..Len(toPrint) |-> toPrint[j] \/ (start <= j - 1 /\ j - 1 < end)]

\* linediff.go:307-322: the marking loop from line i on
RECURSIVE markContextFrom(_, _, _, _)
markContextFrom(lines, n, i, toPrint) ==
    IF i >= Len(lines) THEN toPrint
    ELSE IF At(lines, i).HasChanges
    THEN LET start == Max(addInt(i, -n), 0)
             end == Min(addInt(addInt(i, n), 1), Len(lines))
         IN markContextFrom(lines, n, i + 1, markRange(toPrint, start, end))
    ELSE markContextFrom(lines, n, i + 1, toPrint)

\* linediff.go:301-330
FilterWithContext(lines, n) ==
    IF n <= 0 THEN lines
    ELSE LET toPrint == markContextFrom(lines, n, 0, [j \in 1..Len(lines) |-> FALSE])
         IN SelectIdx(lines, toPrint, 1)


\* ------------------------------------------------------------------
\* Specification of the context filter
\* ------------------------------------------------------------------
MaxCtxLines == 5

\* contextLines: negative, zero, small, and the largest int
ContextValues == {-1, 0, 1, 2, MaxInt}

\* the results of a line-by-line diff, as far as the filter reads them:
\* result k is numbered k and has changes or not
CtxInputs ==
    UNION {{[k \in 1..n |-> LineDiffResult(k, k, flags[k], <<>>)] :
                flags \in [1..n -> BOOLEAN]} : n \in 0..MaxCtxLines}

InitCtx ==
    /\ pc = "start"
    /\ ctxLines \in CtxInputs
    /\ contextLines \in ContextValues
    /\ filteredLines = <<>>
    /\ UnifiedIdle /\ LoopIdle
    /\ tokens1 = <<>> /\ tokens2 = <<>>
    /\ many = 0 /\ marked1 = <<>> /\ marked2 = <<>>
    /\ discard1 = <<>> /\ discard2 = <<>>
    /\ filtered1 = <<>> /\ filtered2 = <<>> /\ map1 = <<>> /\ map2 = <<>>
    /\ diffs = <<>> /\ minContext = 0 /\ out = <<>>
    /\ lower1 = <<>> /\ lower2 = <<>> /\ filteredDiffs = <<>>
    /\ text = <<>> /\ opts = <<>> /\ tokens = <<>> /\ positions = <<>>
    /\ lines1 = <<>> /\ lines2 = <<>> /\ lineDiffs = <<>>
    /\ algorithm = "" /\ simThreshold = <<0, 1>> /\ simOf = <<>>
    /\ blockDeletes = <<>> /\ blockInserts = <<>> /\ pairings = <<>>
    /\ results = <<>> /\ blocks = <<>> /\ statistics = ZeroStatistics

DoFilterWithContext ==
    /\ pc = "start"
    /\ filteredLines' = FilterWithContext(ctxLines, contextLines)
    /\ pc' = "contextFiltered"
    /\ UNCHANGED <<ctxLines, contextLines>>
    /\ UNCHANGED <<tokens1, tokens2, out, filterVars, postVars, caseVars, tokVars,
                   lineVars, unifiedVars, loopVars>>

NextCtx == DoFilterWithContext

SpecCtx == InitCtx /\ [][NextCtx]_vars

\* ------------------------------------------------------------------
\* Claims about the context filter
\* ------------------------------------------------------------------
\* line j (0-based) is within n lines of a line that has changes
NearChange(lines, n, j) ==
    \E i \in 0..(Len(lines) - 1) :
        /\ At(lines, i).HasChanges
        /\ IF i >= j THEN i - j <= n ELSE j - i <= n

\* C26: FilterWithContext(lines, n) with n > 0 returns, in their original
\* order and without duplicates, exactly the lines whose index is within n
\* of the index of some line that has changes; with n <= 0 it returns all
\* lines.
C26_ContextWindow ==
    pc = "contextFiltered" =>
        filteredLines =
            IF contextLines <= 0 THEN ctxLines
            ELSE SelectIdx(ctxLines,
                           [j \in 1..Len(ctxLines) |->
                               NearChange(ctxLines, contextLines, j - 1)], 1)


\* ------------------------------------------------------------------
\* Claims about the dual line numbers
\* ------------------------------------------------------------------
\* the number of old (new) lines shown by the first n results
OldLinesBefore(rs, n) == Len(OldNumbers(SubSeq(rs, 1, n)))
NewLinesBefore(rs, n) == Len(NewNumbers(SubSeq(rs, 1, n)))

\* result First + p of block b carries the 1-based indices its lines have
\* in the old and in the new text
BlockNumbersOk(rs, b, p) ==
    LET e == b.Emitted[p]
        r == rs[b.First + p]
    IN /\ e[1] # -1 => r.OldLineNum = OldLinesBefore(rs, b.First) + e[1] + 1
       /\ e[2] # -1 => r.NewLineNum = NewLinesBefore(rs, b.First) + e[2] + 1

\* C27: DiffLineByLine tracks both line numbers: every result that shows a
\* line of the new text has that line's 1-based index in the new text as
\* NewLineNum, and every result that shows a line of the old text has that
\* line's 1-based index in the old text as OldLineNum, under positional
\* and under "best" pairing.
C27_DualLineNumbers ==
    pc = "lineDiffed" =>
        /\ \A k \in 1..Len(results) :
              ~results[k].HasChanges =>
                  /\ results[k].OldLineNum = OldLinesBefore(results, k)
                  /\ results[k].NewLineNum = NewLinesBefore(results, k)
        /\ \A k \in 1..Len(blocks) :
              \A p \in 1..Len(blocks[k].Emitted) :
                  BlockNumbersOk(results, blocks[k], p)


\* ------------------------------------------------------------------
\* Claims about what ShiftBoundaries leaves alone
\* ------------------------------------------------------------------
\* some Delete run of ds is immediately followed by an Insert op
HasDeleteInsertPair(ds) ==
    \E k \in 1..(Len(ds) - 1) : ds[k].Type = Delete /\ ds[k + 1].Type = Insert

\* C28: ShiftBoundaries rewrites only a maximal Delete run that is
\* immediately followed by a maximal Insert run. A Delete run not followed
\* by an Insert op, an Insert run not preceded by a Delete run and the
\* Equal ops next to them come out unchanged and in place: a sequence in
\* which no Delete run is followed by an Insert op is returned as it is.
C28_ShiftFrame ==
    (pc = "ShiftBoundaries" /\ ~HasDeleteInsertPair(diffs)) => out = diffs


\* ------------------------------------------------------------------
\* Specification of the loop of InterleaveDiffs, one step per iteration,
\* on ops whose Type is any Operation value
\* ------------------------------------------------------------------
MaxLoopLen == 3

\* an Operation that is none of Equal, Insert, Delete
UnknownOperation == 3

LoopOps == {Diff(ty, tk) : ty \in {Equal, Insert, Delete, UnknownOperation},
                           tk \in PostTokens}

InitInterleave ==
    /\ pc = "loop"
    /\ diffs \in SeqsUpTo(LoopOps, MaxLoopLen)
    /\ interleaveI = 0 /\ interleaveResult = <<>>
    /\ minContext = 0 /\ out = <<>>
    /\ tokens1 = <<>> /\ tokens2 = <<>>
    /\ many = 0 /\ marked1 = <<>> /\ marked2 = <<>>
    /\ discard1 = <<>> /\ discard2 = <<>>
    /\ filtered1 = <<>> /\ filtered2 = <<>> /\ map1 = <<>> /\ map2 = <<>>
    /\ lower1 = <<>> /\ lower2 = <<>> /\ filteredDiffs = <<>>
    /\ text = <<>> /\ opts = <<>> /\ tokens = <<>> /\ positions = <<>>
    /\ lines1 = <<>> /\ lines2 = <<>> /\ lineDiffs = <<>>
    /\ algorithm = "" /\ simThreshold = <<0, 1>> /\ simOf = <<>>
    /\ blockDeletes = <<>> /\ blockInserts = <<>> /\ pairings = <<>>
    /\ results = <<>> /\ blocks = <<>> /\ statistics = ZeroStatistics
    /\ CtxIdle /\ UnifiedIdle

InterleaveFrame ==
    UNCHANGED <<tokens1, tokens2, diffs, minContext, filterVars, caseVars, tokVars,
                lineVars, ctxVars, unifiedVars>>

\* postprocess.go:451-499: one iteration of for i < len(diffs)
InterleaveIteration ==
    /\ pc = "loop"
    /\ interleaveI < Len(diffs)
    /\ \E st \in {interleaveStep(diffs, interleaveI, interleaveResult)} :
          /\ interleaveI' = st[1]
          /\ interleaveResult' = st[2]
    /\ UNCHANGED <<pc, out>>
    /\ InterleaveFrame

\* postprocess.go:444-446 and 451, 501: the loop condition fails, return
InterleaveReturn ==
    /\ pc = "loop"
    /\ interleaveI >= Len(diffs)
    /\ out' = IF Len(diffs) = 0 THEN diffs ELSE interleaveResult
    /\ pc' = "returned"
    /\ UNCHANGED <<interleaveI, interleaveResult>>
    /\ InterleaveFrame

NextInterleave == InterleaveIteration \/ InterleaveReturn

SpecInterleave == InitInterleave /\ [][NextInterleave]_vars

\* the program keeps running: an iteration or the return that can happen,
\* happens
SpecInterleaveFair == SpecInterleave /\ WF_vars(NextInterleave)

\* ------------------------------------------------------------------
\* Claims about termination
\* ------------------------------------------------------------------
\* C29: every post-processing pass terminates on every finite Diff
\* sequence, whatever integer the Type of an op is; for InterleaveDiffs:
\* the call eventually returns.
C29_InterleaveTerminates == <>(pc = "returned")


\* ------------------------------------------------------------------
\* Claims about the tokens DiscardConfusingTokens keeps
\* ------------------------------------------------------------------
\* token i (0-based) of a side is in the filtered sequence
InFiltered(toks, m, filtered, i) ==
    \E p \in 1..Len(m) : m[p] = i /\ filtered[p] = At(toks, i)

\* what C30 says of one side; other is the other side's token sequence
InteriorTokensKept(toks, other, marked, m, filtered, thr) ==
    \A i \in 0..(Len(toks) - 1) :
        /\ ((\E j \in 0..(i - 1) : At(marked, j) = discardKeep)
            /\ (\E k \in (i + 1)..(Len(toks) - 1) : At(marked, k) = discardKeep))
           => InFiltered(toks, m, filtered, i)
        /\ ~InFiltered(toks, m, filtered, i) =>
              /\ MapGet(Counts(other), At(toks, i)) > thr
              /\ \/ \A j \in 0..i : At(marked, j) # discardKeep
                 \/ \A k \in i..(Len(toks) - 1) : At(marked, k) # discardKeep

============================================================================
